---- MODULE Spec2Model ----
(***************************************************************************)
(* A model of the memory management of the Inko virtual machine:           *)
(*   - the Immix block (src/vm/src/immix/block.rs): bump allocation, hole  *)
(*     finding, reset and the finalization protocol between the thread     *)
(*     that owns the block (the mutator, or the collector while the        *)
(*     mutator is suspended) and the finalizer workers;                    *)
(*   - the local allocator (src/vm/src/immix/local_allocator.rs);          *)
(*   - copying and moving objects between heaps                            *)
(*     (src/vm/src/immix/copy_object.rs, src/vm/src/binding.rs).           *)
(*   - bindings and the global scope (src/vm/src/binding.rs,               *)
(*     src/vm/src/global_scope.rs);                                        *)
(*   - the process: write barrier, mailbox, and the collection requests    *)
(*     with the heap and mailbox collectors (src/vm/src/process.rs,        *)
(*     src/vm/src/gc/request.rs, src/vm/src/gc/mailbox_collector.rs);      *)
(*   - the execution contexts and the status of the process, the rotation  *)
(*     of the line marks of a block over the collections, and the          *)
(*     reclaiming of all blocks of a process that has finished.            *)
(*                                                                         *)
(* Pointers into the block are object-slot offsets from `lines`, the base  *)
(* of the block (a *mut Object moved with offset()).  Bitmaps are the sets *)
(* of the indexes whose bit is set.                                        *)
(***************************************************************************)
EXTENDS Integers, Sequences, FiniteSets, TLC

(***************************************************************************)
(* Bounds of the model.                                                    *)
(***************************************************************************)
\* The number of finalizer workers that may hold a pointer to the block.
NumWorkers == 1
\* The number of distinct object slots the model writes objects into.
MaxSlots == 2
\* The same where holes are filled: a line of objects and one more.
MaxHoleSlots == 4
\* Lines 1..MaxLine are marked one range at a time by mark_lines; the
\* other lines are marked only as a tail that reaches the end of the block.
MaxLine == 2
\* The destructor of an object panics at most MaxPanics times.
MaxPanics == 1
\* The blocks the global allocator hands out to a local allocator.
MaxBlocks == 2
\* The pointers held by the root of a heap that is copied or moved.
MaxPointers == 3

(***************************************************************************)
(* The layout constants of block.rs.                                       *)
(***************************************************************************)
BLOCK_SIZE == 32 * 1024
LINE_SIZE == 128
LINES_PER_BLOCK == BLOCK_SIZE \div LINE_SIZE
MAX_HOLES == LINES_PER_BLOCK \div 2
BYTES_PER_OBJECT == 32
OBJECTS_PER_BLOCK == BLOCK_SIZE \div BYTES_PER_OBJECT
OBJECTS_PER_LINE == LINE_SIZE \div BYTES_PER_OBJECT
OBJECT_START_SLOT == LINE_SIZE \div BYTES_PER_OBJECT
LINE_START_SLOT == 1

\* The address Global.alloc returned for the block: aligned to BLOCK_SIZE.
lines == 3 * BLOCK_SIZE

\* The byte address of the slot a pointer (a slot offset from lines) names.
Address(pointer) == lines + pointer * BYTES_PER_OBJECT

\* x & !(LINE_SIZE - 1) on a non-negative address.
LINE_BITMAP_MASK(x) == x - (x % LINE_SIZE)

\* x & !(BLOCK_SIZE - 1) on a non-negative address.
OBJECT_BITMAP_MASK(x) == x - (x % BLOCK_SIZE)

start_address == OBJECT_START_SLOT
end_address == OBJECTS_PER_BLOCK

\* A line index counted from the line of the first object.
line_index_of_pointer_from_first_object(pointer) ==
    (LINE_BITMAP_MASK(Address(pointer)) - Address(start_address)) \div LINE_SIZE

line_index_of_pointer(pointer) ==
    (LINE_BITMAP_MASK(Address(pointer)) - lines) \div LINE_SIZE

object_index_of_pointer(pointer) ==
    (Address(pointer) - lines) \div BYTES_PER_OBJECT

(***************************************************************************)
(* Threads and objects.                                                    *)
(***************************************************************************)
Owner == 0
Workers == 1..NumWorkers
Threads == {Owner} \cup Workers
Free == -1

\* The values the model allocates: a float owns heap memory and has to be
\* dropped, None does not.
Values == {"Float", "None"}
is_finalizable(object) == object = "Float"

\* The bucket a block is handed to, and the null pointer of a block in none.
Buckets == {"bucket"}
NullBucket == "null"

Min(S) == CHOOSE x \in S : \A y \in S : x <= y
Max(S) == CHOOSE x \in S : \A y \in S : x >= y

VARIABLES
    \* struct Block
    free_pointer, end_pointer, finalizing, used_lines_bitmap,
    marked_objects_bitmap, finalize_bitmap, pending_finalization_bitmap,
    \* struct BlockHeader: [bucket, holes, fragmented]
    header,
    \* the object slots written so far: slot -> [value, dropped]
    memory,
    \* the holder of the mutex around pending_finalization_bitmap, or Free
    mutex,
    \* FALSE once Drop has given the backing region back
    allocated,
    \* where each thread is, the labels it returns to, and its locals
    pc, stack, index, call,
    \* history: how often each slot of the last schedule was dropped, the
    \* last operation of the owner and its result, the allocations into the
    \* block while it is fresh (-1 once it is not), and the slots dropped
    \* after the region was given back
    drops, last, fresh, late

VARIABLES
    \* struct LocalAllocator: the four young buckets, each [age, blocks], the
    \* position of the eden bucket, and the mature bucket
    young_generation, eden_index, mature_generation,
    \* the blocks the global allocator has handed out, block -> [free, bucket],
    \* and their number
    heap_blocks, global_allocator,
    \* where the allocator is in an allocation: [pc, op, target, block], with
    \* the operation, the bucket and the block of the last one when idle
    allocation,
    \* the objects of the heaps, pointer -> [heap, value, prototype, attributes,
    \* finalize], with the pointers 1, 2, .. in the order of allocation and the
    \* null pointer 0; the bindings, binding -> [locals, parent]; and the last
    \* call of copy_object or move_object: [op, onto, source, pointer, panicked,
    \* visits]
    objects, bindings, copy

VARIABLES
    \* struct PointerIterator: the binding it is at and the index of the next
    \* local, with the binding it was made for, the locals it has returned,
    \* each as <<binding, index>>, and whether it has returned None
    iterator,
    \* the last call of Binding::find_parent: [binding, depth, parent], the
    \* parent <<>> for None and <<b>> for Some(b)
    found_parent,
    \* struct GlobalScope: its variables, and the last call of get or set:
    \* [op, index, value, panicked]
    global_scope, scope_call,
    \* the objects of the process heap as the collector sees them, address ->
    \* [generation, fields], the remembered set of the allocator, and the
    \* store whose write barrier has not run yet: [written_to, written]
    process_heap, remembered_set, barrier,
    \* struct Mailbox: the lists internal and external, each entry the pointer
    \* in the list with the pointer that was sent, with the number of messages
    \* sent so far, and the holder of the write lock; the message a sender holding the lock is about to copy; and the
    \* last result of receive_message: [op, should_copy, cell, message,
    \* pointer, bucket]
    mailbox, write_lock, sending, received,
    \* the process: its status, whether its allocator asks for a collection of
    \* the mature generation, the registers and binding locals of its
    \* execution contexts, its counters of collections, and the number of
    \* times it is in the queue of the scheduler
    status, should_collect_mature, contexts, statistics, pool,
    \* the collection request [collection_type, profile] that is waiting or
    \* performed, the collector that performs it: [pc, collection_type,
    \* mature, reclaimed, counted], and the marked objects of the process heap
    \* and of the mailbox
    request, collector, marked

VARIABLES
    \* struct LocalData: the execution contexts of the process, the current
    \* one first and each followed by its parent, each [id, instruction_index];
    \* and the last call on them: [op, returned, pushes, pops, timeouts], with
    \* the number of contexts pushed, of contexts popped and of timeouts so far
    local_data, context_call

VARIABLES
    \* the blocks of the bucket of the mailbox allocator; and the call of
    \* reclaim_and_finalize: [pc, blocks, at, finalizer_pool, returned, owned,
    \* finalizable], with the list of the blocks taken from the buckets and
    \* the position of the loop in it, the blocks scheduled on the finalizer
    \* pool and the blocks given to the global allocator, in order, and, as
    \* they were when the call began, the blocks of the process and the
    \* finalize bits of the block the model follows
    mailbox_allocator, reclaim

VARIABLES
    \* struct LineMap of used_lines_bitmap: the lines of the bitmap whose mark
    \* is not the one of the current cycle; and the cycle of the collector:
    \* [collecting, before, marked], with the lines that were set when the
    \* cycle began and the lines set since
    previous_lines, cycle

VARIABLES
    \* the heaps whose block is flagged as fragmented; and the TraceResult of
    \* the last trace of the mailbox collector: [move_objects, moving, roots,
    \* marked, evacuated, promoted, moved], with what prepare_for_collection
    \* returned, whether the moving trace ran, the roots it began with and
    \* the objects it moved
    fragmented, trace_result,
    \* the last call of the index functions of the block: [pointer,
    \* object_index, line_index, block], with the byte address of the
    \* pointer, the two indexes and the address the block mask gives
    index_call

allocatorVars == <<young_generation, eden_index, mature_generation,
                   heap_blocks, global_allocator, allocation>>
heapVars == <<objects, bindings, copy>>
bindingVars == <<iterator, found_parent>>
scopeVars == <<global_scope, scope_call>>
barrierVars == <<process_heap, remembered_set, barrier>>
mailboxVars == <<mailbox, write_lock, sending, received>>
collectorVars == <<status, should_collect_mature, contexts, statistics, pool,
                   request, collector, marked>>
contextVars == <<local_data, context_call>>
reclaimVars == <<mailbox_allocator, reclaim>>
lineVars == <<previous_lines, cycle>>
traceVars == <<fragmented, trace_result, index_call>>
runtimeVars == <<bindingVars, scopeVars, barrierVars, mailboxVars, collectorVars,
    contextVars, reclaimVars, lineVars, traceVars>>
\* the variables of the process that the actions on the bindings, on the
\* global scope and on the fields of the objects leave alone
exceptBinding == <<allocatorVars, heapVars, scopeVars, barrierVars, mailboxVars,
    collectorVars, contextVars, reclaimVars, lineVars, traceVars>>
exceptScope == <<allocatorVars, heapVars, bindingVars, barrierVars, mailboxVars,
    collectorVars, contextVars, reclaimVars, lineVars, traceVars>>
exceptBarrier == <<allocatorVars, heapVars, bindingVars, scopeVars, mailboxVars,
    collectorVars, contextVars, reclaimVars, lineVars, traceVars>>
exceptMailbox == <<allocatorVars, copy, bindingVars, scopeVars, barrierVars,
    collectorVars, contextVars, reclaimVars, lineVars, traceVars>>
exceptCollector == <<allocatorVars, heapVars, bindingVars, scopeVars, contextVars,
    reclaimVars, lineVars, traceVars>>
exceptContext == <<allocatorVars, heapVars, bindingVars, scopeVars, barrierVars,
    mailboxVars, reclaimVars, lineVars, traceVars>>
exceptReclaim == <<heapVars, bindingVars, scopeVars, barrierVars, mailboxVars,
    collectorVars, contextVars, lineVars, traceVars>>
exceptLine == <<allocatorVars, heapVars, bindingVars, scopeVars, barrierVars,
    mailboxVars, collectorVars, contextVars, reclaimVars, traceVars>>
exceptTrace == <<allocatorVars, heapVars, bindingVars, scopeVars, contextVars,
    reclaimVars, lineVars>>
processVars == <<allocatorVars, heapVars, runtimeVars>>

blockVars == <<free_pointer, end_pointer, finalizing, used_lines_bitmap,
               marked_objects_bitmap, finalize_bitmap,
               pending_finalization_bitmap, header, memory, mutex, allocated>>
threadVars == <<pc, stack, index, call>>
historyVars == <<drops, last, fresh, late>>
vars == <<blockVars, threadVars, historyVars, processVars>>

NoCall == [op |-> "none", object |-> "None", saw |-> FALSE]
NoLast == [op |-> "none", pointer |-> 0, result |-> FALSE]
Did(op) == [NoLast EXCEPT !.op = op]

\* BlockHeader::new
BlockHeader_new == [bucket |-> NullBucket, holes |-> 1, fragmented |-> FALSE]

\* No cycle of the collector has begun.
NoCycle == [collecting |-> FALSE, before |-> {}, marked |-> {}]

\* LineMap::set for each line of a set, and LineMap::reset: a line that is
\* set carries the mark of the current cycle.
LineMap_set(set_lines) ==
    /\ previous_lines' = previous_lines \ set_lines
    /\ cycle' = IF cycle.collecting
                THEN [cycle EXCEPT !.marked = @ \cup set_lines]
                ELSE cycle

LineMap_reset ==
    /\ previous_lines' = {}
    /\ cycle' = cycle

\* Block::new
Block_new ==
    /\ free_pointer = start_address
    /\ end_pointer = end_address
    /\ finalizing = FALSE
    /\ used_lines_bitmap = {}
    /\ marked_objects_bitmap = {}
    /\ finalize_bitmap = {}
    /\ pending_finalization_bitmap = {}
    /\ header = BlockHeader_new
    /\ memory = <<>>
    /\ mutex = Free
    /\ allocated = TRUE
    /\ pc = [t \in Threads |-> "idle"]
    /\ stack = [t \in Threads |-> <<>>]
    /\ index = [t \in Threads |-> 0]
    /\ call = NoCall
    /\ drops = <<>>
    /\ last = NoLast
    /\ fresh = 0
    /\ late = {}
    /\ previous_lines = {}
    /\ cycle = NoCycle

\* The maximum age of a bucket in the young generation.
YOUNG_MAX_AGE == 3

\* The buckets of a local allocator: a young bucket by its position in
\* young_generation, and the mature bucket.
YoungBucket(position) == [generation |-> "young", position |-> position]
MatureBucket == [generation |-> "mature", position |-> 0]
NoBucket == [generation |-> "none", position |-> 0]

\* Bucket::with_age and Bucket::new
Bucket_with_age(age) == [age |-> age, blocks |-> <<>>, current |-> 0]
Bucket_new == Bucket_with_age(0)

\* Bucket::add_block: the block joins the list of the bucket and becomes its
\* current block.
Bucket_add_block(bucket, block) ==
    [bucket EXCEPT !.blocks = Append(@, block), !.current = Len(bucket.blocks) + 1]

NoAllocation == [pc |-> "idle", op |-> "none", target |-> NoBucket, block |-> 0]

\* LocalAllocator::new: the eden bucket gets a block of the global allocator.
LocalAllocator_new ==
    /\ young_generation =
           [position \in 0..3 |->
               IF position = 0
               THEN Bucket_add_block(Bucket_with_age(0), 1)
               ELSE Bucket_with_age(-position)]
    /\ eden_index = 0
    /\ mature_generation = Bucket_new
    /\ heap_blocks = (1 :> [free |-> start_address, bucket |-> YoungBucket(0)])
    /\ global_allocator = 1
    /\ allocation = NoAllocation

NoCopy == [op |-> "none", onto |-> "none", source |-> 0, pointer |-> 0,
           panicked |-> FALSE, visits |-> <<>>]

\* No object has been allocated.
EmptyHeap ==
    /\ objects = <<>>
    /\ bindings = <<>>
    /\ copy = NoCopy

NoFound == [binding |-> 0, depth |-> 0, parent |-> <<>>]

NoIterator ==
    [binding |-> 0, local_index |-> 0, first |-> 0, yielded |-> <<>>,
     finished |-> FALSE]

ObjectPointer(tag, address) == [tag |-> tag, address |-> address]
ObjectPointer_null == ObjectPointer("regular", 0)
ObjectPointer_integer(value) == ObjectPointer("integer", value)

\* GlobalScope::new: 32 null variables.
GlobalScope_new == [slot \in 1..32 |-> ObjectPointer_null]

NoScopeCall ==
    [op |-> "none", index |-> 0, value |-> ObjectPointer_null,
     panicked |-> FALSE]

NoBarrier == [written_to |-> ObjectPointer_null, written |-> ObjectPointer_null]

\* No binding is iterated and the global scope is new.
IdleScope ==
    /\ iterator = NoIterator
    /\ found_parent = NoFound
    /\ global_scope = GlobalScope_new
    /\ scope_call = NoScopeCall

\* No store waits for its write barrier and nothing is remembered.
\* Process::new: the context the process is created with is the only one,
\* at its first instruction; nothing was called on the contexts.
NoContextCall ==
    [op |-> "none", returned |-> FALSE, pushes |-> 0, pops |-> 0,
     timeouts |-> 0]

ExecutionContext(id) == [id |-> id, instruction_index |-> 0]

IdleContext ==
    /\ local_data = [context |-> <<ExecutionContext(0)>>]
    /\ context_call = NoContextCall

\* No block in the bucket of the mailbox allocator, and no call of
\* reclaim_and_finalize.
NoReclaim ==
    [pc |-> "idle", blocks |-> <<>>, at |-> 0, finalizer_pool |-> <<>>,
     returned |-> <<>>, owned |-> {}, finalizable |-> {}]

IdleReclaim ==
    /\ mailbox_allocator = [blocks |-> <<>>]
    /\ reclaim = NoReclaim

\* No block is flagged as fragmented, and the mailbox was never traced.
NoTrace ==
    [move_objects |-> FALSE, moving |-> FALSE, roots |-> <<>>, marked |-> 0,
     evacuated |-> 0, promoted |-> 0, moved |-> {}]

NoIndexCall == [pointer |-> 0, object_index |-> 0, line_index |-> 0, block |-> 0]

IdleTrace ==
    /\ fragmented = {}
    /\ trace_result = NoTrace
    /\ index_call = NoIndexCall

IdleBarrier ==
    /\ remembered_set = {}
    /\ barrier = NoBarrier

\* Mailbox::new: no message and the write lock free; nothing was received.
NoMessage ==
    [op |-> "none", should_copy |-> FALSE, cell |-> 0, message |-> 0,
     pointer |-> 0, bucket |-> NoBucket]

Mailbox_new ==
    /\ mailbox = [internal |-> <<>>, external |-> <<>>, sent |-> 0]
    /\ write_lock = "free"
    /\ sending = 0
    /\ received = NoMessage

NoRequest == [collection_type |-> "none", profile |-> "none"]

NoCollector ==
    [pc |-> "idle", collection_type |-> "none", mature |-> FALSE,
     reclaimed |-> FALSE, counted |-> FALSE]

\* Process::new: the status Scheduled, no collection counted; the process is
\* in the queue of the scheduler, and no collection is requested.
Process_new ==
    /\ status = "Scheduled"
    /\ statistics = [young_collections |-> 0, mature_collections |-> 0,
                     mailbox_collections |-> 0]
    /\ pool = 1
    /\ request = NoRequest
    /\ collector = NoCollector
    /\ marked = [heap |-> {}, mailbox |-> {}]

\* No part of the process beyond its allocator and its heap is in use.
Idle ==
    /\ IdleScope
    /\ IdleContext
    /\ IdleTrace
    /\ IdleReclaim
    /\ IdleBarrier
    /\ process_heap = <<>>
    /\ Mailbox_new
    /\ Process_new
    /\ should_collect_mature = FALSE
    /\ contexts = <<>>

Init ==
    /\ Block_new
    /\ LocalAllocator_new
    /\ EmptyHeap
    /\ Idle

\* A thread leaves the function it is in: it goes on at the label its caller
\* left on the stack, or is idle when the call was the outermost one.
Return(t) ==
    IF stack[t] = <<>>
    THEN /\ pc' = [pc EXCEPT ![t] = "idle"]
         /\ stack' = stack
         /\ call' = IF t = Owner THEN NoCall ELSE call
    ELSE /\ pc' = [pc EXCEPT ![t] = Head(stack[t])]
         /\ stack' = [stack EXCEPT ![t] = Tail(stack[t])]
         /\ call' = call

\* The owner starts an operation only between two operations, on a block
\* that has not been dropped.
OwnerIdle == pc[Owner] = "idle" /\ allocated

can_bump_allocate == free_pointer < end_pointer

is_finalizing == finalizing


(***************************************************************************)
(* Block::finalize_pending, one step per synchronisation point.            *)
(***************************************************************************)

\* A worker of the finalizer pool, or the owner directly, calls
\* finalize_pending.
finalize_pending_call(t) ==
    /\ pc[t] = "idle"
    /\ allocated
    /\ pc' = [pc EXCEPT ![t] = "fp_lock"]
    /\ call' = IF t = Owner
               THEN [NoCall EXCEPT !.op = "finalize_pending"]
               ELSE call
    /\ last' = IF t = Owner THEN NoLast ELSE last
    /\ UNCHANGED <<blockVars, stack, index, drops,
                   fresh, late>>
    /\ UNCHANGED processVars

\* let mut bitmap = self.pending_finalization_bitmap.lock();
finalize_pending_lock(t) ==
    /\ pc[t] = "fp_lock"
    /\ mutex = Free
    /\ mutex' = t
    /\ pc' = [pc EXCEPT ![t] = "fp_check"]
    /\ UNCHANGED <<free_pointer, end_pointer, finalizing, used_lines_bitmap,
                   marked_objects_bitmap, finalize_bitmap,
                   pending_finalization_bitmap, header, memory, allocated,
                   stack, index, call, drops, last, fresh, late>>
    /\ UNCHANGED processVars

\* if !self.is_finalizing() { return; }   The guard is released on return.
finalize_pending_check(t) ==
    /\ pc[t] = "fp_check"
    /\ IF ~is_finalizing
       THEN /\ mutex' = Free
            /\ Return(t)
            /\ index' = index
       ELSE /\ pc' = [pc EXCEPT ![t] = "fp_loop"]
            /\ index' = [index EXCEPT ![t] = OBJECT_START_SLOT]
            /\ UNCHANGED <<mutex, stack, call>>
    /\ UNCHANGED <<free_pointer, end_pointer, finalizing, used_lines_bitmap,
                   marked_objects_bitmap, finalize_bitmap,
                   pending_finalization_bitmap, header, memory, allocated,
                   drops, last, fresh, late>>
    /\ UNCHANGED processVars

\* ptr::drop_in_place on a slot of the block.
drop_in_place(slot) ==
    (slot :> [value |-> IF slot \in DOMAIN memory
                        THEN memory[slot].value ELSE "None",
              dropped |-> TRUE]) @@ memory

\* The slots the loop has yet to visit whose bit is set.
PendingFrom(i) ==
    {s \in pending_finalization_bitmap : i <= s /\ s < OBJECTS_PER_BLOCK}

\* The labels of a thread inside finalize_pending.
FinalizePendingLabels ==
    {"fp_lock", "fp_check", "fp_loop", "fp_store", "fp_unlock"}

\* A loop that drops the objects and leaves their bits set.
finalize_pending_loop_keeping_bits(t) ==
    /\ pc[t] = "fp_loop"
    /\ IF PendingFrom(index[t]) = {}
       THEN /\ pc' = [pc EXCEPT ![t] = "fp_store"]
            /\ index' = [index EXCEPT ![t] = 0]
            /\ UNCHANGED <<memory, drops, late>>
       ELSE LET slot == Min(PendingFrom(index[t])) IN
            /\ memory' = drop_in_place(slot)
            /\ index' = [index EXCEPT ![t] = slot + 1]
            /\ drops' = (slot :> (IF slot \in DOMAIN drops
                                  THEN drops[slot] + 1 ELSE 1)) @@ drops
            /\ late' = IF allocated THEN late ELSE late \cup {slot}
            /\ pc' = pc
    /\ UNCHANGED <<free_pointer, end_pointer, finalizing, used_lines_bitmap,
                   marked_objects_bitmap, finalize_bitmap,
                   pending_finalization_bitmap, header, mutex, allocated,
                   stack, call, last, fresh>>
    /\ UNCHANGED processVars

\* for index in OBJECT_START_SLOT..OBJECTS_PER_BLOCK: the loop runs on to the
\* next index whose bit is set, drops the object there and unsets the bit;
\* it ends when no index is left.
finalize_pending_loop(t) ==
    /\ pc[t] = "fp_loop"
    /\ IF PendingFrom(index[t]) = {}
       THEN /\ pc' = [pc EXCEPT ![t] = "fp_store"]
            /\ index' = [index EXCEPT ![t] = 0]
            /\ UNCHANGED <<pending_finalization_bitmap, memory, drops,
                           late>>
       ELSE LET slot == Min(PendingFrom(index[t])) IN
            /\ memory' = drop_in_place(slot)
            /\ pending_finalization_bitmap' =
                   pending_finalization_bitmap \ {slot}
            /\ index' = [index EXCEPT ![t] = slot + 1]
            /\ drops' = (slot :> (IF slot \in DOMAIN drops
                                  THEN drops[slot] + 1 ELSE 1)) @@ drops
            /\ late' = IF allocated THEN late ELSE late \cup {slot}
            /\ pc' = pc
    /\ UNCHANGED <<free_pointer, end_pointer, finalizing, used_lines_bitmap,
                   marked_objects_bitmap, finalize_bitmap, header, mutex,
                   allocated, stack, call, last, fresh>>
    /\ UNCHANGED processVars

\* ptr::drop_in_place unwinds: the destructor of the object at the next index
\* whose bit is set panics.  finalize_pending holds nothing that catches the
\* panic, so the rest of the function is skipped (bitmap.unset and the store
\* of the flag), the guard is released by the unwinding, and so is every
\* caller on the stack of the thread; an owner that was in Drop does not
\* reach the deallocation.
finalize_pending_panic(t) ==
    /\ pc[t] = "fp_loop"
    /\ PendingFrom(index[t]) # {}
    /\ LET slot == Min(PendingFrom(index[t])) IN
        /\ (IF slot \in DOMAIN drops THEN drops[slot] ELSE 0) < MaxPanics
        /\ memory' = drop_in_place(slot)
        /\ drops' = (slot :> (IF slot \in DOMAIN drops
                              THEN drops[slot] + 1 ELSE 1)) @@ drops
        /\ late' = IF allocated THEN late ELSE late \cup {slot}
    /\ mutex' = Free
    /\ pc' = [pc EXCEPT ![t] = IF t = Owner /\ call.op = "drop"
                               THEN "dropped" ELSE "idle"]
    /\ stack' = [stack EXCEPT ![t] = <<>>]
    /\ index' = [index EXCEPT ![t] = 0]
    /\ call' = IF t = Owner THEN NoCall ELSE call
    /\ last' = IF t = Owner THEN NoLast ELSE last
    /\ UNCHANGED <<free_pointer, end_pointer, finalizing, used_lines_bitmap,
                   marked_objects_bitmap, finalize_bitmap,
                   pending_finalization_bitmap, header, allocated, fresh>>
    /\ UNCHANGED processVars

\* A function that ends without the store of the flag.
finalize_pending_without_store(t) ==
    /\ pc[t] = "fp_store"
    /\ pc' = [pc EXCEPT ![t] = "fp_unlock"]
    /\ UNCHANGED <<blockVars, stack, index, call, historyVars>>
    /\ UNCHANGED processVars

\* self.finalizing.store(false, Ordering::Release);
finalize_pending_store(t) ==
    /\ pc[t] = "fp_store"
    /\ finalizing' = FALSE
    /\ pc' = [pc EXCEPT ![t] = "fp_unlock"]
    /\ UNCHANGED <<free_pointer, end_pointer, used_lines_bitmap,
                   marked_objects_bitmap, finalize_bitmap,
                   pending_finalization_bitmap, header, memory, mutex,
                   allocated, stack, index, call, historyVars>>
    /\ UNCHANGED processVars

\* The end of finalize_pending: the guard goes out of scope.
finalize_pending_return(t) ==
    /\ pc[t] = "fp_unlock"
    /\ mutex' = Free
    /\ Return(t)
    /\ UNCHANGED <<free_pointer, end_pointer, finalizing, used_lines_bitmap,
                   marked_objects_bitmap, finalize_bitmap,
                   pending_finalization_bitmap, header, memory, allocated,
                   index, drops, last, fresh, late>>
    /\ UNCHANGED processVars

(***************************************************************************)
(* Block::bump_allocate                                                    *)
(***************************************************************************)

\* The model writes into at most `slots` distinct slots.
WithinSlots(slots) ==
    \/ free_pointer \in DOMAIN memory
    \/ Cardinality(DOMAIN memory) < slots

\* An allocation that does not look at the finalizing flag.
bump_allocate_without_drain(object) ==
    /\ OwnerIdle
    /\ can_bump_allocate
    /\ call' = [op |-> "bump_allocate", object |-> object,
                saw |-> is_finalizing]
    /\ pc' = [pc EXCEPT ![Owner] = "ba_write"]
    /\ last' = NoLast
    /\ UNCHANGED <<blockVars, stack, index, drops, fresh, late>>
    /\ UNCHANGED processVars

\* if self.is_finalizing() { self.finalize_pending(); }   The callers
\* allocate into a block that can_bump_allocate.
bump_allocate(object) ==
    /\ OwnerIdle
    /\ can_bump_allocate
    /\ call' = [op |-> "bump_allocate", object |-> object,
                saw |-> is_finalizing]
    /\ IF is_finalizing
       THEN /\ pc' = [pc EXCEPT ![Owner] = "fp_lock"]
            /\ stack' = [stack EXCEPT ![Owner] = <<"ba_write">>]
       ELSE /\ pc' = [pc EXCEPT ![Owner] = "ba_write"]
            /\ stack' = stack
    /\ last' = NoLast
    /\ UNCHANGED <<blockVars, index, drops, fresh,
                   late>>
    /\ UNCHANGED processVars

\* A write that marks every object for finalization.
bump_allocate_write_marking_all ==
    /\ pc[Owner] = "ba_write"
    /\ memory' = (free_pointer :> [value |-> call.object, dropped |-> FALSE])
                     @@ memory
    /\ free_pointer' = free_pointer + 1
    /\ finalize_bitmap' =
           finalize_bitmap \cup {object_index_of_pointer(free_pointer)}
    /\ last' = [Did("bump_allocate") EXCEPT !.pointer = free_pointer]
    /\ fresh' = IF fresh >= 0 THEN fresh + 1 ELSE fresh
    /\ Return(Owner)
    /\ UNCHANGED <<end_pointer, finalizing, used_lines_bitmap,
                   marked_objects_bitmap, pending_finalization_bitmap, header,
                   mutex, allocated, index, drops, late>>
    /\ UNCHANGED processVars

\* ptr::write(self.free_pointer, object), the pointer to return, the free
\* pointer moved on, and mark_for_finalization for a finalizable object.
bump_allocate_write ==
    /\ pc[Owner] = "ba_write"
    /\ memory' = (free_pointer :> [value |-> call.object, dropped |-> FALSE])
                     @@ memory
    /\ free_pointer' = free_pointer + 1
    /\ finalize_bitmap' =
           IF is_finalizable(call.object)
           THEN finalize_bitmap \cup {object_index_of_pointer(free_pointer)}
           ELSE finalize_bitmap
    /\ last' = [Did("bump_allocate") EXCEPT !.pointer = free_pointer]
    /\ fresh' = IF fresh >= 0 THEN fresh + 1 ELSE fresh
    /\ Return(Owner)
    /\ UNCHANGED <<end_pointer, finalizing, used_lines_bitmap,
                   marked_objects_bitmap, pending_finalization_bitmap, header,
                   mutex, allocated, index, drops,
                   late>>
    /\ UNCHANGED processVars

(***************************************************************************)
(* Block::prepare_finalization and Block::finalize                         *)
(***************************************************************************)

\* if self.is_finalizing() { self.finalize_pending(); }   `after` is where
\* the caller of prepare_finalization goes on.
prepare_finalization_enter(op, after) ==
    /\ OwnerIdle
    /\ call' = [op |-> op, object |-> "None", saw |-> is_finalizing]
    /\ IF is_finalizing
       THEN /\ pc' = [pc EXCEPT ![Owner] = "fp_lock"]
            /\ stack' = [stack EXCEPT ![Owner] = <<"pf_lock">> \o after]
       ELSE /\ pc' = [pc EXCEPT ![Owner] = "pf_lock"]
            /\ stack' = [stack EXCEPT ![Owner] = after]
    /\ last' = NoLast
    /\ UNCHANGED <<blockVars, index, drops, fresh,
                   late>>
    /\ UNCHANGED processVars

prepare_finalization == prepare_finalization_enter("prepare_finalization", <<>>)

\* self.prepare_finalization(); self.finalize_pending();
finalize == prepare_finalization_enter("finalize", <<"fp_lock">>)

\* let mut pending_bitmap = self.pending_finalization_bitmap.lock();
prepare_finalization_lock ==
    /\ pc[Owner] = "pf_lock"
    /\ mutex = Free
    /\ mutex' = Owner
    /\ pc' = [pc EXCEPT ![Owner] = "pf_body"]
    /\ UNCHANGED <<free_pointer, end_pointer, finalizing, used_lines_bitmap,
                   marked_objects_bitmap, finalize_bitmap,
                   pending_finalization_bitmap, header, memory, allocated,
                   stack, index, call, historyVars>>
    /\ UNCHANGED processVars

\* A loop that does not look at the mark bits.
UnmarkedOrMarked ==
    {i \in finalize_bitmap : OBJECT_START_SLOT <= i /\ i < OBJECTS_PER_BLOCK}

\* The slots the loop of prepare_finalization moves to the pending bitmap.
Unmarked ==
    {i \in finalize_bitmap :
        /\ OBJECT_START_SLOT <= i /\ i < OBJECTS_PER_BLOCK
        /\ i \notin marked_objects_bitmap}

\* The loop over the slots, and the store of the flag when the pending
\* bitmap is not empty.
prepare_finalization_body ==
    /\ pc[Owner] = "pf_body"
    /\ pending_finalization_bitmap' = pending_finalization_bitmap \cup Unmarked
    /\ finalize_bitmap' = finalize_bitmap \ Unmarked
    /\ finalizing' = IF pending_finalization_bitmap' = {}
                     THEN finalizing ELSE TRUE
    /\ last' = [Did("prepare_finalization") EXCEPT
                   !.result = (pending_finalization_bitmap' # {})]
    /\ drops' = [s \in pending_finalization_bitmap' |-> 0]
    /\ pc' = [pc EXCEPT ![Owner] = "pf_unlock"]
    /\ UNCHANGED <<free_pointer, end_pointer, used_lines_bitmap,
                   marked_objects_bitmap, header, memory, mutex, allocated,
                   stack, index, call, fresh, late>>
    /\ UNCHANGED processVars

\* The end of prepare_finalization: the guard goes out of scope.
prepare_finalization_return ==
    /\ pc[Owner] = "pf_unlock"
    /\ mutex' = Free
    /\ Return(Owner)
    /\ UNCHANGED <<free_pointer, end_pointer, finalizing, used_lines_bitmap,
                   marked_objects_bitmap, finalize_bitmap,
                   pending_finalization_bitmap, header, memory, allocated,
                   index, historyVars>>
    /\ UNCHANGED processVars

(***************************************************************************)
(* Block::reset, reset_mark_bitmaps and the marking of an object           *)
(***************************************************************************)

\* BlockHeader::reset
BlockHeader_reset ==
    [header EXCEPT !.fragmented = FALSE, !.holes = 1, !.bucket = NullBucket]

\* A reset that clears the pending bitmap and the flag as well.
reset_with_pending ==
    /\ OwnerIdle
    /\ header' = BlockHeader_reset
    /\ free_pointer' = start_address
    /\ end_pointer' = end_address
    /\ used_lines_bitmap' = {}
    /\ marked_objects_bitmap' = {}
    /\ finalize_bitmap' = {}
    /\ pending_finalization_bitmap' = {}
    /\ finalizing' = FALSE
    /\ last' = Did("reset")
    /\ fresh' = -1
    /\ UNCHANGED <<memory, mutex, allocated, threadVars, drops, late>>
    /\ LineMap_reset
    /\ UNCHANGED exceptLine

reset ==
    /\ OwnerIdle
    /\ header' = BlockHeader_reset
    /\ free_pointer' = start_address
    /\ end_pointer' = end_address
    /\ used_lines_bitmap' = {}
    /\ marked_objects_bitmap' = {}
    /\ finalize_bitmap' = {}
    /\ last' = Did("reset")
    /\ fresh' = -1
    /\ UNCHANGED <<finalizing, pending_finalization_bitmap, memory, mutex,
                   allocated, threadVars, drops, late>>
    /\ LineMap_reset
    /\ UNCHANGED exceptLine

reset_mark_bitmaps ==
    /\ OwnerIdle
    /\ used_lines_bitmap' = {}
    /\ marked_objects_bitmap' = {}
    /\ last' = NoLast
    /\ UNCHANGED <<free_pointer, end_pointer, finalizing, finalize_bitmap,
                   pending_finalization_bitmap, header, memory, mutex,
                   allocated, threadVars, drops,
                   fresh, late>>
    /\ LineMap_reset
    /\ UNCHANGED exceptLine

\* The collector marks a live object: the bit of its slot and the bit of
\* its line.  Only an object that was written and not dropped is live.
mark(slot) ==
    /\ OwnerIdle
    /\ slot \in DOMAIN memory
    /\ ~memory[slot].dropped
    /\ slot \notin marked_objects_bitmap
    /\ marked_objects_bitmap' = marked_objects_bitmap \cup {slot}
    /\ used_lines_bitmap' = used_lines_bitmap \cup {line_index_of_pointer(slot)}
    /\ last' = NoLast
    /\ UNCHANGED <<free_pointer, end_pointer, finalizing, finalize_bitmap,
                   pending_finalization_bitmap, header, memory, mutex,
                   allocated, threadVars, drops,
                   fresh, late>>
    /\ LineMap_set({line_index_of_pointer(slot)})
    /\ UNCHANGED exceptLine

(***************************************************************************)
(* impl Drop for Block                                                     *)
(***************************************************************************)

\* A Drop that gives the region back without a look at the flag.
drop_without_drain ==
    /\ OwnerIdle
    /\ call' = [op |-> "drop", object |-> "None", saw |-> is_finalizing]
    /\ pc' = [pc EXCEPT ![Owner] = "dealloc"]
    /\ last' = NoLast
    /\ UNCHANGED <<blockVars, stack, index, drops, fresh, late>>
    /\ UNCHANGED processVars

\* if self.is_finalizing() { self.finalize_pending(); }
drop ==
    /\ OwnerIdle
    /\ call' = [op |-> "drop", object |-> "None", saw |-> is_finalizing]
    /\ IF is_finalizing
       THEN /\ pc' = [pc EXCEPT ![Owner] = "fp_lock"]
            /\ stack' = [stack EXCEPT ![Owner] = <<"dealloc">>]
       ELSE /\ pc' = [pc EXCEPT ![Owner] = "dealloc"]
            /\ stack' = stack
    /\ last' = NoLast
    /\ UNCHANGED <<blockVars, index, drops, fresh,
                   late>>
    /\ UNCHANGED processVars

\* Global.dealloc(pointer, heap_layout_for_block());
drop_dealloc ==
    /\ pc[Owner] = "dealloc"
    /\ allocated' = FALSE
    /\ pc' = [pc EXCEPT ![Owner] = "dropped"]
    /\ last' = NoLast
    /\ UNCHANGED <<free_pointer, end_pointer, finalizing, used_lines_bitmap,
                   marked_objects_bitmap, finalize_bitmap,
                   pending_finalization_bitmap, header, memory, mutex, stack,
                   index, call, drops, fresh, late>>
    /\ UNCHANGED processVars

(***************************************************************************)
(* Hole finding: recycle, find_available_hole, is_available_for_allocation *)
(***************************************************************************)

\* A turn that ends the hole one line late: the end pointer is set to the
\* end of the marked line.
hole_step_late(at, line) ==
    IF at.start_set /\ at.stop_set
    THEN at
    ELSE LET offset == (line - 1) * OBJECTS_PER_LINE
             starts == line \notin used_lines_bitmap /\ ~at.start_set
             start1 == at.start_set \/ starts
             stops == start1 /\ ~at.stop_set /\ line \in used_lines_bitmap
         IN  [free |-> IF starts THEN start_address + offset ELSE at.free,
              end |-> IF stops
                      THEN start_address + offset + OBJECTS_PER_LINE
                      ELSE at.end,
              start_set |-> start1,
              stop_set |-> at.stop_set \/ stops]

\* One turn of the loop of find_available_hole_starting_at, at `line`, on
\* the two pointers and the two flags as the turns before left them.  Once
\* both flags are set the loop has ended (break).
hole_step(at, line) ==
    IF at.start_set /\ at.stop_set
    THEN at
    ELSE LET offset == (line - 1) * OBJECTS_PER_LINE
             starts == line \notin used_lines_bitmap /\ ~at.start_set
             start1 == at.start_set \/ starts
             stops == start1 /\ ~at.stop_set /\ line \in used_lines_bitmap
         IN  [free |-> IF starts THEN start_address + offset ELSE at.free,
              end |-> IF stops THEN start_address + offset ELSE at.end,
              start_set |-> start1,
              stop_set |-> at.stop_set \/ stops]

\* for index in from..to: the turns of the loop in order, the range halved
\* so that the evaluation does not nest once per line.
RECURSIVE hole_scan(_, _, _)
hole_scan(from, to, at) ==
    IF from >= to
    THEN at
    ELSE IF from + 1 = to
         THEN hole_step(at, from)
         ELSE LET middle == (from + to) \div 2
                  first == hole_scan(from, middle, at)
              IN  IF first.start_set /\ first.stop_set
                  THEN first
                  ELSE hole_scan(middle, to, first)

\* A search that leaves the end pointer alone when it finds no end.
find_available_hole_starting_at_keeping_end(line) ==
    LET scanned == hole_scan(line, LINES_PER_BLOCK,
                             [free |-> free_pointer, end |-> end_pointer,
                              start_set |-> FALSE, stop_set |-> FALSE])
    IN  [free |-> scanned.free, end |-> scanned.end]

\* The free and the end pointer find_available_hole_starting_at(line)
\* leaves: if !stop_set { self.end_pointer = self.end_address(); }
find_available_hole_starting_at(line) ==
    LET scanned == hole_scan(line, LINES_PER_BLOCK,
                             [free |-> free_pointer, end |-> end_pointer,
                              start_set |-> FALSE, stop_set |-> FALSE])
    IN  [free |-> scanned.free,
         end |-> IF ~scanned.stop_set THEN end_address ELSE scanned.end]

\* The pointers find_available_hole leaves: nothing is done when the free
\* pointer is at the end of the block.
find_available_hole_pointers ==
    IF free_pointer = end_address
    THEN [free |-> free_pointer, end |-> end_pointer]
    ELSE find_available_hole_starting_at(line_index_of_pointer(free_pointer))

recycle ==
    /\ OwnerIdle
    /\ LET hole == find_available_hole_starting_at(LINE_START_SLOT) IN
        /\ free_pointer' = hole.free
        /\ end_pointer' = hole.end
    /\ last' = NoLast
    /\ fresh' = -1
    /\ UNCHANGED <<finalizing, used_lines_bitmap, marked_objects_bitmap,
                   finalize_bitmap, pending_finalization_bitmap, header,
                   memory, mutex, allocated, threadVars, drops, late>>
    /\ UNCHANGED processVars

find_available_hole ==
    /\ OwnerIdle
    /\ LET hole == find_available_hole_pointers IN
        /\ free_pointer' = hole.free
        /\ end_pointer' = hole.end
        /\ last' = NoLast
    /\ fresh' = -1
    /\ UNCHANGED <<finalizing, used_lines_bitmap, marked_objects_bitmap,
                   finalize_bitmap, pending_finalization_bitmap, header,
                   memory, mutex, allocated, threadVars, drops, late>>
    /\ UNCHANGED processVars

is_available_for_allocation ==
    /\ OwnerIdle
    /\ IF can_bump_allocate
       THEN /\ last' = [Did("is_available_for_allocation") EXCEPT
                           !.result = TRUE]
            /\ UNCHANGED <<free_pointer, end_pointer, fresh>>
       ELSE LET hole == find_available_hole_pointers IN
            /\ free_pointer' = hole.free
            /\ end_pointer' = hole.end
            /\ last' = [Did("is_available_for_allocation") EXCEPT
                           !.result = (hole.free < hole.end)]
            /\ fresh' = -1
    /\ UNCHANGED <<finalizing, used_lines_bitmap, marked_objects_bitmap,
                   finalize_bitmap, pending_finalization_bitmap, header,
                   memory, mutex, allocated, threadVars, drops, late>>
    /\ UNCHANGED processVars

(***************************************************************************)
(* The header: update_hole_count, set_bucket, set_fragmented               *)
(***************************************************************************)

\* A turn that counts every unmarked line as a hole of its own.
hole_count_step_per_line(at, line) ==
    LET is_set == line \in used_lines_bitmap IN
    IF is_set
    THEN [in_hole |-> FALSE, holes |-> at.holes]
    ELSE [in_hole |-> TRUE, holes |-> at.holes + 1]

\* One turn of the loop of update_hole_count, at `line`.
hole_count_step(at, line) ==
    LET is_set == line \in used_lines_bitmap IN
    IF at.in_hole /\ is_set
    THEN [in_hole |-> FALSE, holes |-> at.holes]
    ELSE IF ~at.in_hole /\ ~is_set
         THEN [in_hole |-> TRUE, holes |-> at.holes + 1]
         ELSE at

\* for index in from..to, the range halved as in hole_scan.
RECURSIVE hole_count(_, _, _)
hole_count(from, to, at) ==
    IF from >= to
    THEN at
    ELSE IF from + 1 = to
         THEN hole_count_step(at, from)
         ELSE LET middle == (from + to) \div 2
                  first == hole_count(from, middle, at)
              IN  IF first.holes >= 0
                  THEN hole_count(middle, to, first)
                  ELSE first

update_hole_count ==
    /\ OwnerIdle
    /\ LET holes == hole_count(LINE_START_SLOT, LINES_PER_BLOCK,
                                [in_hole |-> FALSE, holes |-> 0]).holes IN
        /\ header' = [header EXCEPT !.holes = holes]
        /\ last' = [Did("update_hole_count") EXCEPT !.pointer = holes]
    /\ UNCHANGED <<free_pointer, end_pointer, finalizing, used_lines_bitmap,
                   marked_objects_bitmap, finalize_bitmap,
                   pending_finalization_bitmap, memory, mutex, allocated,
                   threadVars, drops, fresh, late>>
    /\ UNCHANGED processVars

set_bucket(bucket) ==
    /\ OwnerIdle
    /\ header.bucket # bucket
    /\ header' = [header EXCEPT !.bucket = bucket]
    /\ last' = NoLast
    /\ UNCHANGED <<free_pointer, end_pointer, finalizing, used_lines_bitmap,
                   marked_objects_bitmap, finalize_bitmap,
                   pending_finalization_bitmap, memory, mutex, allocated,
                   threadVars, drops, fresh, late>>
    /\ UNCHANGED processVars

set_fragmented ==
    /\ OwnerIdle
    /\ ~header.fragmented
    /\ header' = [header EXCEPT !.fragmented = TRUE]
    /\ last' = NoLast
    /\ UNCHANGED <<free_pointer, end_pointer, finalizing, used_lines_bitmap,
                   marked_objects_bitmap, finalize_bitmap,
                   pending_finalization_bitmap, memory, mutex, allocated,
                   threadVars, drops, fresh, late>>
    /\ UNCHANGED processVars

\* The ranges of lines a trace marks at once: a range within the first
\* MaxLine lines, every line from one of them to the end of the block, or
\* the last line alone.
LineRanges ==
    {a..b : a \in 1..MaxLine, b \in 1..MaxLine}
        \cup {a..(LINES_PER_BLOCK - 1) : a \in 1..(MaxLine + 1)}
        \cup {{LINES_PER_BLOCK - 1}}

\* The collector marks the lines of live objects the model does not follow
\* one by one: used_lines_bitmap.set(line) for each line of the range.
mark_lines(range) ==
    /\ OwnerIdle
    /\ range # {}
    /\ ~(range \subseteq used_lines_bitmap \ previous_lines)
    /\ used_lines_bitmap' = used_lines_bitmap \cup range
    /\ last' = NoLast
    /\ UNCHANGED <<free_pointer, end_pointer, finalizing,
                   marked_objects_bitmap, finalize_bitmap,
                   pending_finalization_bitmap, header, memory, mutex,
                   allocated, threadVars, drops, fresh, late>>
    /\ LineMap_set(range)
    /\ UNCHANGED exceptLine

(***************************************************************************)
(* The finalization protocol: the owner allocates, marks, prepares,        *)
(* finalizes, resets and drops the block while the workers of the          *)
(* finalizer pool run finalize_pending on it.                              *)
(***************************************************************************)
Next ==
    \/ \E t \in Threads : finalize_pending_call(t)
    \/ \E t \in Threads : finalize_pending_lock(t)
    \/ \E t \in Threads : finalize_pending_check(t)
    \/ \E t \in Threads : finalize_pending_loop(t)
    \/ \E t \in Threads : finalize_pending_store(t)
    \/ \E t \in Threads : finalize_pending_return(t)
    \/ \E object \in Values : WithinSlots(MaxSlots) /\ bump_allocate(object)
    \/ bump_allocate_write
    \/ prepare_finalization
    \/ finalize
    \/ prepare_finalization_lock
    \/ prepare_finalization_body
    \/ prepare_finalization_return
    \/ reset
    \/ reset_mark_bitmaps
    \/ \E slot \in DOMAIN memory : mark(slot)
    \/ drop
    \/ drop_dealloc

Spec == Init /\ [][Next]_vars

(***************************************************************************)
(* Hole finding on a block whose lines a trace has marked: the owner       *)
(* recycles the block, allocates into the holes and looks for the next     *)
(* hole.  Only None is allocated: nothing is finalized here.               *)
(***************************************************************************)
NextHole ==
    \/ WithinSlots(MaxHoleSlots) /\ bump_allocate("None")
    \/ bump_allocate_write
    \/ \E range \in LineRanges : mark_lines(range)
    \/ recycle
    \/ find_available_hole
    \/ is_available_for_allocation

SpecHole == Init /\ [][NextHole]_vars

(***************************************************************************)
(* The window of the block over its whole life: allocation into it, the    *)
(* search for the next hole, and reset.                                    *)
(***************************************************************************)
NextWindow ==
    \/ WithinSlots(MaxHoleSlots) /\ bump_allocate("None")
    \/ bump_allocate_write
    \/ \E range \in LineRanges : mark_lines(range)
    \/ recycle
    \/ find_available_hole
    \/ is_available_for_allocation
    \/ reset

SpecWindow == Init /\ [][NextWindow]_vars

(***************************************************************************)
(* The block in the hands of its owner alone: allocation, marking, the     *)
(* header, recycling, finalization without a worker, and reset.  Only      *)
(* floats are allocated, and only until the block is first recycled or     *)
(* reset; lines are marked within the first MaxLine lines.                 *)
(***************************************************************************)
NextBlock ==
    \/ WithinSlots(MaxSlots) /\ fresh >= 0 /\ bump_allocate("Float")
    \/ bump_allocate_write
    \/ prepare_finalization
    \/ prepare_finalization_lock
    \/ prepare_finalization_body
    \/ prepare_finalization_return
    \/ finalize_pending_lock(Owner)
    \/ finalize_pending_check(Owner)
    \/ finalize_pending_loop(Owner)
    \/ finalize_pending_store(Owner)
    \/ finalize_pending_return(Owner)
    \/ reset
    \/ \E slot \in DOMAIN memory : mark(slot)
    \/ \E range \in {r \in LineRanges : r \subseteq 1..MaxLine} :
            mark_lines(range)
    \/ recycle
    \/ update_hole_count
    \/ \E bucket \in Buckets : set_bucket(bucket)
    \/ set_fragmented

SpecBlock == Init /\ [][NextBlock]_vars

(***************************************************************************)
(* Hole counting: a trace marks lines, also every second line of the       *)
(* block, the collector counts the holes, and the marks are reset.         *)
(***************************************************************************)

\* Every second line of the block, from `first` on.
EveryOtherLine(first) ==
    {j \in first..(LINES_PER_BLOCK - 1) : j % 2 = first % 2}

CountRanges ==
    LineRanges \cup {EveryOtherLine(LINE_START_SLOT),
                     EveryOtherLine(LINE_START_SLOT + 1)}

NextCount ==
    \/ \E range \in CountRanges : mark_lines(range)
    \/ update_hole_count
    \/ reset_mark_bitmaps
    \/ set_fragmented

SpecCount == Init /\ [][NextCount]_vars

(***************************************************************************)
(* The finalization protocol with destructors that panic.                  *)
(***************************************************************************)
NextPanic ==
    \/ Next
    \/ \E t \in Threads : finalize_pending_panic(t)

SpecPanic == Init /\ [][NextPanic]_vars

(***************************************************************************)
(* The local allocator (src/vm/src/immix/local_allocator.rs): the eden     *)
(* and mature allocation paths, one step per call that changes the heap,   *)
(* and the ageing of the young generation.  Blocks of the allocator are    *)
(* followed by their free pointer only.                                    *)
(***************************************************************************)
YoungBuckets == {YoungBucket(position) : position \in 0..3}

\* The bucket a reference names, and the allocator with that bucket replaced.
BucketOf(bucket) ==
    IF bucket.generation = "young"
    THEN young_generation[bucket.position]
    ELSE mature_generation

\* LocalAllocator::eden_space_mut
eden_space_mut == YoungBucket(eden_index)

\* Bucket::first_available_block: the first block from the cursor on that can
\* take an object, 0 when there is none.
AvailablePositions(bucket) ==
    {position \in 1..Len(bucket.blocks) :
        /\ position >= bucket.current
        /\ heap_blocks[bucket.blocks[position]].free < end_address}

first_available_block(bucket) ==
    IF AvailablePositions(bucket) = {}
    THEN 0
    ELSE bucket.blocks[Min(AvailablePositions(bucket))]

\* The cursor of the bucket after first_available_block.
AdvanceCursor(bucket) ==
    IF AvailablePositions(bucket) = {}
    THEN bucket
    ELSE [bucket EXCEPT !.current = Min(AvailablePositions(bucket))]

\* The allocator writes bucket as the bucket the reference names.
SetBucket(reference, bucket) ==
    IF reference.generation = "young"
    THEN /\ young_generation' = [young_generation EXCEPT ![reference.position] = bucket]
         /\ UNCHANGED mature_generation
    ELSE /\ mature_generation' = bucket
         /\ UNCHANGED young_generation

\* The slots of an allocator block whose allocation is followed one by one:
\* the first ones and the last one.
FollowedSlot(pointer) ==
    \/ pointer < start_address + MaxSlots
    \/ pointer = end_address - 1

\* The first half of allocate_eden and allocate_mature: the object goes into
\* the first available block of the bucket, or a block is requested.
allocate(op, target) ==
    /\ allocation.pc = "idle"
    /\ LET block == first_available_block(BucketOf(target)) IN
        IF block # 0
        THEN /\ FollowedSlot(heap_blocks[block].free)
             /\ SetBucket(target, AdvanceCursor(BucketOf(target)))
             /\ heap_blocks' = [heap_blocks EXCEPT ![block].free = @ + 1]
             /\ allocation' = [pc |-> "idle", op |-> op, target |-> target,
                               block |-> block]
        ELSE /\ allocation' = [pc |-> "request", op |-> op, target |-> target,
                               block |-> 0]
             /\ UNCHANGED <<young_generation, mature_generation, heap_blocks>>
    /\ UNCHANGED <<eden_index, global_allocator>>
    /\ UNCHANGED <<blockVars, threadVars, historyVars, heapVars, runtimeVars>>

\* LocalAllocator::allocate_eden
allocate_eden(op) == allocate(op, eden_space_mut)

\* LocalAllocator::allocate_with_prototype
allocate_with_prototype == allocate_eden("allocate_with_prototype")

\* LocalAllocator::allocate_without_prototype
allocate_without_prototype == allocate_eden("allocate_without_prototype")

\* LocalAllocator::allocate_empty
allocate_empty == allocate_eden("allocate_empty")

\* CopyObject::allocate_copy of the local allocator
allocate_copy == allocate_eden("allocate_copy")

allocate_mature_into_eden == allocate("allocate_mature", eden_space_mut)

\* LocalAllocator::allocate_mature
allocate_mature == allocate("allocate_mature", MatureBucket)

\* A run of allocations that fills the first available block of a bucket up
\* to its last slot.
allocate_many(target) ==
    /\ allocation.pc = "idle"
    /\ LET block == first_available_block(BucketOf(target)) IN
        /\ block # 0
        /\ heap_blocks[block].free < end_address - 1
        /\ SetBucket(target, AdvanceCursor(BucketOf(target)))
        /\ heap_blocks' = [heap_blocks EXCEPT ![block].free = end_address - 1]
        /\ allocation' = [pc |-> "idle", op |-> "allocate_many",
                          target |-> target, block |-> block]
    /\ UNCHANGED <<eden_index, global_allocator>>
    /\ UNCHANGED <<blockVars, threadVars, historyVars, heapVars, runtimeVars>>

\* global_allocator.request_block() of allocate_eden and allocate_mature
request_block ==
    /\ allocation.pc = "request"
    /\ global_allocator < MaxBlocks
    /\ global_allocator' = global_allocator + 1
    /\ heap_blocks' = heap_blocks @@
           ((global_allocator + 1) :> [free |-> start_address, bucket |-> NoBucket])
    /\ allocation' = [allocation EXCEPT !.pc = "add",
                                        !.block = global_allocator + 1]
    /\ UNCHANGED <<young_generation, eden_index, mature_generation>>
    /\ UNCHANGED <<blockVars, threadVars, historyVars, heapVars, runtimeVars>>

\* bucket.add_block(block) of allocate_eden and allocate_mature
add_block ==
    /\ allocation.pc = "add"
    /\ SetBucket(allocation.target,
                 Bucket_add_block(BucketOf(allocation.target), allocation.block))
    /\ heap_blocks' = [heap_blocks EXCEPT ![allocation.block].bucket = allocation.target]
    /\ allocation' = [allocation EXCEPT !.pc = "write"]
    /\ UNCHANGED <<eden_index, global_allocator>>
    /\ UNCHANGED <<blockVars, threadVars, historyVars, heapVars, runtimeVars>>

\* Bucket::bump_allocate: the object goes into the current block of the bucket.
Bucket_bump_allocate(bucket) == bucket.blocks[bucket.current]

\* bucket.bump_allocate(object) of allocate_eden and allocate_mature, after the
\* new block was added
allocate_write ==
    /\ allocation.pc = "write"
    /\ LET block == Bucket_bump_allocate(BucketOf(allocation.target)) IN
        /\ heap_blocks' = [heap_blocks EXCEPT ![block].free = @ + 1]
        /\ allocation' = [allocation EXCEPT !.pc = "idle", !.block = block]
    /\ UNCHANGED <<young_generation, eden_index, mature_generation, global_allocator>>
    /\ UNCHANGED <<blockVars, threadVars, historyVars, heapVars, runtimeVars>>

\* The young buckets increment_young_ages resets.
AtMaxAge == {position \in 0..3 : young_generation[position].age = YOUNG_MAX_AGE}

\* Bucket::reset_age and Bucket::increment_age
reset_age(bucket) == [bucket EXCEPT !.age = 0]
increment_age(bucket) == [bucket EXCEPT !.age = @ + 1]

increment_young_ages_keeping_eden ==
    /\ allocation.pc = "idle"
    /\ young_generation' =
           [position \in 0..3 |->
               IF position \in AtMaxAge
               THEN reset_age(young_generation[position])
               ELSE increment_age(young_generation[position])]
    /\ UNCHANGED eden_index
    /\ allocation' = [NoAllocation EXCEPT !.op = "increment_young_ages"]
    /\ UNCHANGED <<mature_generation, heap_blocks, global_allocator>>
    /\ UNCHANGED <<blockVars, threadVars, historyVars, heapVars, runtimeVars>>

\* An aging that resets a bucket one age before YOUNG_MAX_AGE.
increment_young_ages_resetting_early ==
    /\ allocation.pc = "idle"
    /\ LET early == {position \in 0..3 :
                        young_generation[position].age >= YOUNG_MAX_AGE - 1}
       IN  /\ young_generation' =
                  [position \in 0..3 |->
                      IF position \in early
                      THEN reset_age(young_generation[position])
                      ELSE increment_age(young_generation[position])]
           /\ eden_index' = IF early = {} THEN eden_index ELSE Max(early)
    /\ allocation' = [NoAllocation EXCEPT !.op = "increment_young_ages"]
    /\ UNCHANGED <<mature_generation, heap_blocks, global_allocator>>
    /\ UNCHANGED <<blockVars, threadVars, historyVars, heapVars, runtimeVars>>

\* LocalAllocator::increment_young_ages: the buckets are visited in order, the
\* last one that is reset becomes the eden bucket.
increment_young_ages ==
    /\ allocation.pc = "idle"
    /\ young_generation' =
           [position \in 0..3 |->
               IF position \in AtMaxAge
               THEN reset_age(young_generation[position])
               ELSE increment_age(young_generation[position])]
    /\ eden_index' = IF AtMaxAge = {} THEN eden_index ELSE Max(AtMaxAge)
    /\ allocation' = [NoAllocation EXCEPT !.op = "increment_young_ages"]
    /\ UNCHANGED <<mature_generation, heap_blocks, global_allocator>>
    /\ UNCHANGED <<blockVars, threadVars, historyVars, heapVars, runtimeVars>>

NextAllocator ==
    \/ allocate_with_prototype
    \/ allocate_without_prototype
    \/ allocate_empty
    \/ allocate_copy
    \/ allocate_mature
    \/ \E target \in YoungBuckets \cup {MatureBucket} : allocate_many(target)
    \/ request_block
    \/ add_block
    \/ allocate_write
    \/ increment_young_ages

SpecAllocator == Init /\ [][NextAllocator]_vars

(***************************************************************************)
(* Copying and moving objects between heaps                                *)
(* (src/vm/src/immix/copy_object.rs, Binding::clone_to and                 *)
(* Binding::move_pointers_to of src/vm/src/binding.rs).  copy_object and   *)
(* move_object are computed on a record h = [objects, bindings, self,      *)
(* visits, panicked]: the objects and bindings, the heap of the allocator  *)
(* that copies, the pointers the call was entered with past the permanent  *)
(* check, and whether the call has panicked.                               *)
(***************************************************************************)
\* The heaps of the processes: the local heap a message is copied from and
\* moved onto, and the mailbox heap in between.
Heaps == {"mailbox", "local"}
OtherHeap(heap) == IF heap = "mailbox" THEN "local" ELSE "mailbox"

\* ObjectValue: the variant, its scalar contents, the elements of an array and
\* the binding of a block or a binding.
ObjectValue(kind, data, elements, binding) ==
    [kind |-> kind, data |-> data, elements |-> elements, binding |-> binding]
object_value_none == ObjectValue("None", 0, <<>>, 0)

\* Object::is_finalizable: the value or the attributes need a destructor.
Object_is_finalizable(object) ==
    \/ object.value.kind # "None"
    \/ object.attributes # <<>>

\* ObjectPointer::is_permanent
is_permanent(h, pointer) == h.objects[pointer].heap = "permanent"

Result(h, pointer) == [heap |-> h, pointer |-> pointer]

\* allocate_copy: the object is allocated on the heap that copies; the block
\* sets its finalize bit when the object is finalizable.
allocate_copy_on(h, object) ==
    IF h.panicked
    THEN Result(h, 0)
    ELSE Result([h EXCEPT !.objects =
                    Append(@, [heap |-> h.self,
                               value |-> object.value,
                               prototype |-> object.prototype,
                               attributes |-> object.attributes,
                               finalize |-> Object_is_finalizable(object)])],
                Len(h.objects) + 1)

RECURSIVE copy_object(_, _)
RECURSIVE copy_each(_, _)
RECURSIVE copy_attributes(_, _)
RECURSIVE clone_locals(_, _)
RECURSIVE clone_to(_, _)

\* raw_vec.iter().map(|val_ptr| self.copy_object(*val_ptr)) of copy_object
copy_each(h, pointers) ==
    IF pointers = <<>>
    THEN [heap |-> h, pointers |-> <<>>]
    ELSE LET first == copy_object(h, Head(pointers))
             rest == copy_each(first.heap, Tail(pointers))
         IN [heap |-> rest.heap, pointers |-> <<first.pointer>> \o rest.pointers]

\* The loop over map.iter() of copy_object: the key, then the value.
copy_attributes(h, map) ==
    IF map = <<>>
    THEN [heap |-> h, map |-> <<>>]
    ELSE LET key_copy == copy_object(h, Head(map)[1])
             val_copy == copy_object(key_copy.heap, Head(map)[2])
             rest == copy_attributes(val_copy.heap, Tail(map))
         IN [heap |-> rest.heap,
             map |-> <<<<key_copy.pointer, val_copy.pointer>>>> \o rest.map]

\* The loop over the locals of Binding::clone_to: a null local stays null.
clone_locals(h, locals) ==
    IF locals = <<>>
    THEN [heap |-> h, pointers |-> <<>>]
    ELSE LET first == IF Head(locals) = 0
                      THEN Result(h, 0)
                      ELSE copy_object(h, Head(locals))
             rest == clone_locals(first.heap, Tail(locals))
         IN [heap |-> rest.heap, pointers |-> <<first.pointer>> \o rest.pointers]

clone_to_sharing_parent(h, binding) ==
    LET parent == [heap |-> h, binding |-> h.bindings[binding].parent]
        new_locals == clone_locals(parent.heap, h.bindings[binding].locals)
    IN IF new_locals.heap.panicked
       THEN [heap |-> new_locals.heap, binding |-> 0]
       ELSE [heap |-> [new_locals.heap EXCEPT !.bindings =
                          Append(@, [locals |-> new_locals.pointers,
                                     parent |-> parent.binding])],
             binding |-> Len(new_locals.heap.bindings) + 1]

\* Binding::clone_to: the parent first, then the locals, into a new binding.
clone_to(h, binding) ==
    LET parent == IF h.bindings[binding].parent # 0
                  THEN clone_to(h, h.bindings[binding].parent)
                  ELSE [heap |-> h, binding |-> 0]
        new_locals == clone_locals(parent.heap, h.bindings[binding].locals)
    IN IF new_locals.heap.panicked
       THEN [heap |-> new_locals.heap, binding |-> 0]
       ELSE [heap |-> [new_locals.heap EXCEPT !.bindings =
                          Append(@, [locals |-> new_locals.pointers,
                                     parent |-> parent.binding])],
             binding |-> Len(new_locals.heap.bindings) + 1]

copy_value_sharing_binding(h, value) ==
    CASE value.kind = "Array" ->
             LET new_map == copy_each(h, value.elements)
             IN [heap |-> new_map.heap,
                 value |-> [value EXCEPT !.elements = new_map.pointers]]
      [] value.kind = "File" ->
             [heap |-> [h EXCEPT !.panicked = TRUE], value |-> value]
      [] OTHER -> [heap |-> h, value |-> value]

copy_value_cloning_file(h, value) ==
    CASE value.kind = "Array" ->
             LET new_map == copy_each(h, value.elements)
             IN [heap |-> new_map.heap,
                 value |-> [value EXCEPT !.elements = new_map.pointers]]
      [] value.kind \in {"Block", "Binding"} ->
             LET new_binding == clone_to(h, value.binding)
             IN [heap |-> new_binding.heap,
                 value |-> [value EXCEPT !.binding = new_binding.binding]]
      [] OTHER -> [heap |-> h, value |-> value]

\* The match on to_copy.value of copy_object.
copy_value(h, value) ==
    CASE value.kind = "Array" ->
             LET new_map == copy_each(h, value.elements)
             IN [heap |-> new_map.heap,
                 value |-> [value EXCEPT !.elements = new_map.pointers]]
      [] value.kind = "File" ->
             [heap |-> [h EXCEPT !.panicked = TRUE], value |-> value]
      [] value.kind \in {"Block", "Binding"} ->
             LET new_binding == clone_to(h, value.binding)
             IN [heap |-> new_binding.heap,
                 value |-> [value EXCEPT !.binding = new_binding.binding]]
      [] OTHER -> [heap |-> h, value |-> value]

copy_object_without_prototype(h, to_copy_ptr) ==
    IF h.panicked
    THEN Result(h, 0)
    ELSE IF is_permanent(h, to_copy_ptr)
    THEN Result(h, to_copy_ptr)
    ELSE LET to_copy == h.objects[to_copy_ptr]
             entered == [h EXCEPT !.visits = Append(@, to_copy_ptr)]
             value_copy == copy_value(entered, to_copy.value)
             map_copy == IF to_copy.attributes # <<>>
                         THEN copy_attributes(value_copy.heap, to_copy.attributes[1])
                         ELSE [heap |-> value_copy.heap, map |-> <<>>]
         IN allocate_copy_on(map_copy.heap,
                [value |-> value_copy.value,
                 prototype |-> 0,
                 attributes |-> IF to_copy.attributes # <<>>
                                THEN <<map_copy.map>>
                                ELSE <<>>])

\* CopyObject::copy_object
copy_object(h, to_copy_ptr) ==
    IF h.panicked
    THEN Result(h, 0)
    ELSE IF is_permanent(h, to_copy_ptr)
    THEN Result(h, to_copy_ptr)
    ELSE LET to_copy == h.objects[to_copy_ptr]
             entered == [h EXCEPT !.visits = Append(@, to_copy_ptr)]
             value_copy == copy_value(entered, to_copy.value)
             proto_copy == IF to_copy.prototype # 0
                           THEN copy_object(value_copy.heap, to_copy.prototype)
                           ELSE Result(value_copy.heap, 0)
             map_copy == IF to_copy.attributes # <<>>
                         THEN copy_attributes(proto_copy.heap, to_copy.attributes[1])
                         ELSE [heap |-> proto_copy.heap, map |-> <<>>]
         IN allocate_copy_on(map_copy.heap,
                [value |-> value_copy.value,
                 prototype |-> proto_copy.pointer,
                 attributes |-> IF to_copy.attributes # <<>>
                                THEN <<map_copy.map>>
                                ELSE <<>>])

RECURSIVE move_object(_, _)
RECURSIVE move_each(_, _)
RECURSIVE move_attributes(_, _)
RECURSIVE move_locals(_, _, _)
RECURSIVE move_pointers_to(_, _)

\* The loop over the array of move_object.
move_each(h, pointers) ==
    IF pointers = <<>>
    THEN [heap |-> h, pointers |-> <<>>]
    ELSE LET first == move_object(h, Head(pointers))
             rest == move_each(first.heap, Tail(pointers))
         IN [heap |-> rest.heap, pointers |-> <<first.pointer>> \o rest.pointers]

\* The loop over map.iter() of move_object: the key, then the value.
move_attributes(h, map) ==
    IF map = <<>>
    THEN [heap |-> h, map |-> <<>>]
    ELSE LET key_copy == move_object(h, Head(map)[1])
             val_copy == move_object(key_copy.heap, Head(map)[2])
             rest == move_attributes(val_copy.heap, Tail(map))
         IN [heap |-> rest.heap,
             map |-> <<<<key_copy.pointer, val_copy.pointer>>>> \o rest.map]

\* The loop over the locals of Binding::move_pointers_to, from local_index on: a
\* local that is not null is replaced in place by the moved pointer.
move_locals(h, binding, local_index) ==
    IF local_index > Len(h.bindings[binding].locals)
    THEN h
    ELSE IF h.bindings[binding].locals[local_index] = 0
    THEN move_locals(h, binding, local_index + 1)
    ELSE LET moved == move_object(h, h.bindings[binding].locals[local_index])
         IN move_locals([moved.heap EXCEPT
                            !.bindings[binding].locals[local_index] = moved.pointer],
                        binding, local_index + 1)

\* Binding::move_pointers_to: the parent first, then the locals.
move_pointers_to(h, binding) ==
    move_locals(IF h.bindings[binding].parent # 0
                THEN move_pointers_to(h, h.bindings[binding].parent)
                ELSE h,
                binding, 1)

\* The match on to_copy.value.take() of move_object.
move_value(h, value) ==
    CASE value.kind = "Array" ->
             LET array == move_each(h, value.elements)
             IN [heap |-> array.heap,
                 value |-> [value EXCEPT !.elements = array.pointers]]
      [] value.kind \in {"Block", "Binding"} ->
             [heap |-> move_pointers_to(h, value.binding), value |-> value]
      [] OTHER -> [heap |-> h, value |-> value]

move_object_keeping_finalize_bit(h, to_copy_ptr) ==
    IF is_permanent(h, to_copy_ptr)
    THEN Result(h, to_copy_ptr)
    ELSE LET taken == [h EXCEPT !.visits = Append(@, to_copy_ptr),
                                !.objects[to_copy_ptr].value = object_value_none]
             value_copy == move_value(taken, h.objects[to_copy_ptr].value)
             proto_ptr == value_copy.heap.objects[to_copy_ptr].prototype
             proto_taken == [value_copy.heap EXCEPT
                                !.objects[to_copy_ptr].prototype = 0]
             proto_copy == IF proto_ptr # 0
                           THEN move_object(proto_taken, proto_ptr)
                           ELSE Result(proto_taken, 0)
             attributes == proto_copy.heap.objects[to_copy_ptr].attributes
             map_copy == IF attributes # <<>>
                         THEN move_attributes(proto_copy.heap, attributes[1])
                         ELSE [heap |-> proto_copy.heap, map |-> <<>>]
             dropped == [map_copy.heap EXCEPT
                            !.objects[to_copy_ptr].attributes = <<>>]
         IN allocate_copy_on(dropped,
                [value |-> value_copy.value,
                 prototype |-> proto_copy.pointer,
                 attributes |-> IF attributes # <<>>
                                THEN <<map_copy.map>>
                                ELSE <<>>])

\* CopyObject::move_object
move_object(h, to_copy_ptr) ==
    IF is_permanent(h, to_copy_ptr)
    THEN Result(h, to_copy_ptr)
    ELSE LET taken == [h EXCEPT !.visits = Append(@, to_copy_ptr),
                                !.objects[to_copy_ptr].value = object_value_none]
             value_copy == move_value(taken, h.objects[to_copy_ptr].value)
             proto_ptr == value_copy.heap.objects[to_copy_ptr].prototype
             proto_taken == [value_copy.heap EXCEPT
                                !.objects[to_copy_ptr].prototype = 0]
             proto_copy == IF proto_ptr # 0
                           THEN move_object(proto_taken, proto_ptr)
                           ELSE Result(proto_taken, 0)
             attributes == proto_copy.heap.objects[to_copy_ptr].attributes
             map_copy == IF attributes # <<>>
                         THEN move_attributes(proto_copy.heap, attributes[1])
                         ELSE [heap |-> proto_copy.heap, map |-> <<>>]
             dropped == [map_copy.heap EXCEPT
                            !.objects[to_copy_ptr].attributes = <<>>,
                            !.objects[to_copy_ptr].finalize = FALSE]
         IN allocate_copy_on(dropped,
                [value |-> value_copy.value,
                 prototype |-> proto_copy.pointer,
                 attributes |-> IF attributes # <<>>
                                THEN <<map_copy.map>>
                                ELSE <<>>])

(***************************************************************************)
(* The heaps copy_object and move_object are applied to: two leaf objects  *)
(* and a root object that refers to them through its array elements, its   *)
(* prototype, its attributes and the locals of its binding chain, with at  *)
(* most MaxPointers pointers in the root.                                  *)
(***************************************************************************)
Leaves == {1, 2}
Root == 3

Object(heap, value, prototype, attributes) ==
    [heap |-> heap, value |-> value, prototype |-> prototype,
     attributes |-> attributes,
     finalize |-> Object_is_finalizable([value |-> value, attributes |-> attributes])]

ScalarValues(pointer) ==
    {object_value_none,
     ObjectValue("Float", pointer, <<>>, 0),
     ObjectValue("File", pointer, <<>>, 0)}

ArrayValues ==
    {ObjectValue("Array", 0, elements, 0) :
        elements \in UNION {[1..length -> Leaves] : length \in 0..MaxPointers}}

\* A block or a binding whose binding is the second of a chain of two.
BindingValues == {ObjectValue(kind, 0, <<>>, 2) : kind \in {"Block", "Binding"}}

LeafObjects(pointer) ==
    {Object(heap, value, 0, <<>>) :
        heap \in {"local", "permanent"}, value \in ScalarValues(pointer)}

AttributeMaps == {<<>>} \cup {<< << <<key, val>> >> >> : key \in Leaves, val \in Leaves}

RootObjects ==
    {Object("local", value, prototype, attributes) :
        value \in ScalarValues(Root) \cup ArrayValues \cup BindingValues,
        prototype \in {0} \cup Leaves,
        attributes \in AttributeMaps}

\* The bindings of a heap: none, or a binding with one local and its child
\* with one local.
BindingChains(root) ==
    IF root.value.binding = 0
    THEN {<<>>}
    ELSE {<<[locals |-> <<parent_local>>, parent |-> 0],
            [locals |-> <<local>>, parent |-> 1]>> :
            parent_local \in {0} \cup Leaves, local \in {0} \cup Leaves}

\* The pointers of the root and of its binding chain.
Pointers(root, chain) ==
    Len(root.value.elements)
    + (IF root.prototype # 0 THEN 1 ELSE 0)
    + (IF root.attributes # <<>> THEN 2 * Len(root.attributes[1]) ELSE 0)
    + Cardinality({binding \in DOMAIN chain : chain[binding].locals[1] # 0})

InitCopy ==
    /\ Block_new
    /\ LocalAllocator_new
    /\ Idle
    /\ copy = NoCopy
    /\ \E first \in LeafObjects(1), second \in LeafObjects(2), root \in RootObjects :
        \E chain \in BindingChains(root) :
            /\ Pointers(root, chain) <= MaxPointers
            /\ objects = <<first, second, root>>
            /\ bindings = chain

\* The heap an object is copied or moved onto: the one it is not on.
OntoHeap(pointer) ==
    IF objects[pointer].heap = "permanent"
    THEN "mailbox"
    ELSE OtherHeap(objects[pointer].heap)

\* The state a call works on, and the state it leaves.
Entering(pointer) ==
    [objects |-> objects, bindings |-> bindings, self |-> OntoHeap(pointer),
     visits |-> <<>>, panicked |-> FALSE]

Returning(op, pointer, result) ==
    /\ objects' = result.heap.objects
    /\ bindings' = result.heap.bindings
    /\ copy' = [op |-> op, onto |-> result.heap.self, source |-> pointer,
                pointer |-> result.pointer,
                panicked |-> result.heap.panicked,
                visits |-> result.heap.visits]
    /\ UNCHANGED <<blockVars, threadVars, historyVars, allocatorVars, runtimeVars>>

\* The object the pointer refers to, whatever its heap, as an object of the
\* local heap.
AsLocal(h, pointer) ==
    [h EXCEPT !.objects[pointer].heap = "local"]

call_copy_object_of_permanent(pointer) ==
    /\ copy.op = "none"
    /\ LET result == copy_object(AsLocal(Entering(pointer), pointer), pointer)
       IN Returning("copy_object", pointer,
              [result EXCEPT !.heap.objects[pointer].heap = objects[pointer].heap])

\* A call of copy_object on an object of the heap.
call_copy_object(pointer) ==
    /\ copy.op = "none"
    /\ Returning("copy_object", pointer, copy_object(Entering(pointer), pointer))

\* A call of move_object on an object of the heap.
call_move_object(pointer) ==
    /\ copy.op = "none"
    /\ Returning("move_object", pointer, move_object(Entering(pointer), pointer))

\* The copy that copy_object returned is copied back.
copy_object_back ==
    /\ copy.op = "copy_object"
    /\ ~copy.panicked
    /\ Returning("copy_object_back", copy.pointer,
                 copy_object(Entering(copy.pointer), copy.pointer))

\* The copy that copy_object returned is moved on, as a message out of the
\* mailbox heap onto the local heap (Process::receive_message).
move_object_on ==
    /\ copy.op = "copy_object"
    /\ ~copy.panicked
    /\ Returning("move_object_on", copy.pointer,
                 move_object(Entering(copy.pointer), copy.pointer))

NextCopy ==
    \/ \E pointer \in DOMAIN objects : call_copy_object(pointer)
    \/ \E pointer \in DOMAIN objects : call_move_object(pointer)
    \/ copy_object_back
    \/ move_object_on

SpecCopy == InitCopy /\ [][NextCopy]_vars

(***************************************************************************)
(* Binding (binding.rs): the pointer iterator, clone_to and                *)
(* move_pointers_to, applied to a chain of one to three bindings with at   *)
(* most MaxLocals locals in all, each null or one of two leaf objects.     *)
(* Binding 1 is the root of the chain and binding b + 1 the child of b.    *)
(***************************************************************************)
MaxLocals == 3

Locals(slots) ==
    UNION {[1..length -> {0} \cup Leaves] : length \in 0..slots}

RECURSIVE Chains(_, _)
Chains(depth, slots) ==
    IF depth = 0
    THEN {<<>>}
    ELSE UNION {{Append(parents, [locals |-> locals, parent |-> depth - 1]) :
                    parents \in Chains(depth - 1, slots - Len(locals))} :
                locals \in Locals(slots)}

InitBinding ==
    /\ Block_new
    /\ LocalAllocator_new
    /\ Idle
    /\ copy = NoCopy
    /\ \E first \in LeafObjects(1) :
        objects = <<first, Object("local", ObjectValue("Float", 2, <<>>, 0), 0, <<>>)>>
    /\ \E depth \in 1..3 : \E chain \in Chains(depth, MaxLocals) :
        bindings = chain

\* Binding::pointers: an iterator at the first local of the binding.
Binding_pointers(binding) ==
    /\ iterator = NoIterator
    /\ copy.op = "none"
    /\ iterator' = [binding |-> binding, local_index |-> 0, first |-> binding,
                    yielded |-> <<>>, finished |-> FALSE]
    /\ UNCHANGED found_parent
    /\ UNCHANGED <<blockVars, threadVars, historyVars, exceptBinding>>

RECURSIVE PointerIterator_next(_)

PointerIterator_next_keeping_index(it) ==
    LET locals == bindings[it.binding].locals
    IN  IF it.local_index < Len(locals)
        THEN LET local == locals[it.local_index + 1]
                 advanced == [it EXCEPT !.local_index = @ + 1]
             IN  IF local = 0
                 THEN PointerIterator_next(advanced)
                 ELSE [iterator |-> advanced,
                       item |-> <<it.binding, it.local_index>>]
        ELSE IF bindings[it.binding].parent # 0
             THEN PointerIterator_next(
                      [it EXCEPT !.binding = bindings[it.binding].parent])
             ELSE [iterator |-> it, item |-> <<>>]

\* PointerIterator::next: the next local that is not null, of the binding
\* the iterator is at or else of the nearest ancestor that has one, as
\* <<binding, index>>; <<>> is None.
PointerIterator_next(it) ==
    LET locals == bindings[it.binding].locals
    IN  IF it.local_index < Len(locals)
        THEN LET local == locals[it.local_index + 1]
                 advanced == [it EXCEPT !.local_index = @ + 1]
             IN  IF local = 0
                 THEN PointerIterator_next(advanced)
                 ELSE [iterator |-> advanced,
                       item |-> <<it.binding, it.local_index>>]
        ELSE IF bindings[it.binding].parent # 0
             THEN PointerIterator_next(
                      [it EXCEPT !.binding = bindings[it.binding].parent,
                                 !.local_index = 0])
             ELSE [iterator |-> it, item |-> <<>>]

\* Binding::push_pointers: one turn of its loop over the iterator, which
\* pushes the local that next returned or ends the loop on None.
push_pointers ==
    /\ iterator.first # 0
    /\ ~iterator.finished
    /\ LET result == PointerIterator_next(iterator)
       IN  iterator' = [result.iterator EXCEPT
                           !.yielded = IF result.item = <<>>
                                       THEN @
                                       ELSE Append(@, result.item),
                           !.finished = (result.item = <<>>)]
    /\ UNCHANGED found_parent
    /\ UNCHANGED <<blockVars, threadVars, historyVars, exceptBinding>>

\* The state a call of clone_to or move_pointers_to with the mailbox heap
\* works on.
OntoMailbox ==
    [objects |-> objects, bindings |-> bindings, self |-> "mailbox",
     visits |-> <<>>, panicked |-> FALSE]

\* A call of Binding::clone_to on a binding of the chain.
call_clone_to(binding) ==
    /\ copy.op = "none"
    /\ iterator = NoIterator
    /\ LET result == clone_to(OntoMailbox, binding)
       IN  Returning("clone_to", binding,
                     [heap |-> result.heap, pointer |-> result.binding])

\* A call of Binding::move_pointers_to on a binding of the chain.
call_move_pointers_to(binding) ==
    /\ copy.op = "none"
    /\ iterator = NoIterator
    /\ Returning("move_pointers_to", binding,
                 [heap |-> move_pointers_to(OntoMailbox, binding),
                  pointer |-> binding])

NextBinding ==
    \/ \E binding \in DOMAIN bindings : Binding_pointers(binding)
    \/ push_pointers
    \/ \E binding \in DOMAIN bindings : call_clone_to(binding)
    \/ \E binding \in DOMAIN bindings : call_move_pointers_to(binding)

SpecBinding == InitBinding /\ [][NextBinding]_vars

\* Binding::find_parent is called with a depth of at most MaxDepth.
MaxDepth == 3

\* Binding::parent
Binding_parent(binding) ==
    IF bindings[binding].parent = 0 THEN <<>> ELSE <<bindings[binding].parent>>

\* The loop of find_parent: one more parent for each turn, None as soon as
\* there is none.
RECURSIVE find_parent_turns(_, _)
find_parent_turns(parent, turns) ==
    IF turns = 0
    THEN parent
    ELSE IF parent # <<>>
         THEN find_parent_turns(Binding_parent(parent[1]), turns - 1)
         ELSE <<>>

\* A find_parent that begins at the binding itself.
find_parent_from_self(binding, depth) == find_parent_turns(<<binding>>, depth)

\* Binding::find_parent
find_parent(binding, depth) == find_parent_turns(Binding_parent(binding), depth)

\* A call of Binding::find_parent on a binding of the chain.
call_find_parent(binding, depth) ==
    /\ found_parent' = [binding |-> binding, depth |-> depth,
                 parent |-> find_parent(binding, depth)]
    /\ UNCHANGED iterator
    /\ UNCHANGED <<blockVars, threadVars, historyVars, exceptBinding>>

NextFindParent ==
    \E binding \in DOMAIN bindings, depth \in 0..MaxDepth :
        call_find_parent(binding, depth)

SpecFindParent == InitBinding /\ [][NextFindParent]_vars

(***************************************************************************)
(* GlobalScope (global_scope.rs): get and set with the indexes 0, 31 and   *)
(* 32..MaxIndex and with a null pointer, a pointer to a permanent object,  *)
(* a tagged integer and a pointer to an object of a local heap.            *)
(***************************************************************************)
MaxIndex == 33

ScopePointers ==
    {ObjectPointer_null, ObjectPointer("permanent", 1), ObjectPointer_integer(5),
     ObjectPointer("regular", 1)}

ScopeIndexes == {0, 31} \cup 32..MaxIndex

\* ObjectPointer::is_permanent: a tagged integer or a pointer into the
\* permanent heap.
ObjectPointer_is_permanent(pointer) == pointer.tag \in {"integer", "permanent"}

\* A get that returns null for an index out of bounds.
GlobalScope_get_or_null(local_index) ==
    /\ scope_call' = [op |-> "get", index |-> local_index,
                      value |-> IF local_index < Len(global_scope)
                                THEN global_scope[local_index + 1]
                                ELSE ObjectPointer_null,
                      panicked |-> FALSE]
    /\ UNCHANGED global_scope
    /\ UNCHANGED <<blockVars, threadVars, historyVars, exceptScope>>

\* GlobalScope::get: the variable, or a panic for an index out of bounds.
GlobalScope_get(local_index) ==
    /\ scope_call' = IF local_index < Len(global_scope)
                     THEN [op |-> "get", index |-> local_index,
                           value |-> global_scope[local_index + 1],
                           panicked |-> FALSE]
                     ELSE [op |-> "get", index |-> local_index,
                           value |-> ObjectPointer_null, panicked |-> TRUE]
    /\ UNCHANGED global_scope
    /\ UNCHANGED <<blockVars, threadVars, historyVars, exceptScope>>

\* The variables after locals.resize(index + 1, null) and locals[index] = value.
Stored(locals, local_index, value) ==
    [slot \in 1..Max({Len(locals), local_index + 1}) |->
        IF slot = local_index + 1
        THEN value
        ELSE IF slot <= Len(locals) THEN locals[slot] ELSE ObjectPointer_null]

GlobalScope_set_checking_late(local_index, value) ==
    /\ scope_call' = [op |-> "set", index |-> local_index, value |-> value,
                      panicked |-> ~ObjectPointer_is_permanent(value)]
    /\ global_scope' = Stored(global_scope, local_index, value)
    /\ UNCHANGED <<blockVars, threadVars, historyVars, exceptScope>>

\* GlobalScope::set: a panic for a value that is not permanent, and else the
\* variables grown to hold the index and the value stored.
GlobalScope_set(local_index, value) ==
    /\ scope_call' = [op |-> "set", index |-> local_index, value |-> value,
                      panicked |-> ~ObjectPointer_is_permanent(value)]
    /\ global_scope' = IF ~ObjectPointer_is_permanent(value)
                       THEN global_scope
                       ELSE Stored(global_scope, local_index, value)
    /\ UNCHANGED <<blockVars, threadVars, historyVars, exceptScope>>

NextScope ==
    \/ \E local_index \in ScopeIndexes : GlobalScope_get(local_index)
    \/ \E local_index \in ScopeIndexes, value \in ScopePointers :
        GlobalScope_set(local_index, value)

SpecScope == Init /\ [][NextScope]_vars

(***************************************************************************)
(* The write barrier (process.rs): stores into the fields of at most       *)
(* MaxObjects objects of the process heap, each young or mature and with   *)
(* one field, and the barrier that follows each store.                     *)
(***************************************************************************)
MaxObjects == 2

HeapObject(generation, fields) == [generation |-> generation, fields |-> fields]

\* The pointers to the objects of the process heap.
HeapPointers == {ObjectPointer("regular", address) : address \in DOMAIN process_heap}

\* The pointers a store writes: to an object of the heap, to a permanent
\* object, or a tagged integer.
WrittenPointers ==
    HeapPointers \cup {ObjectPointer("permanent", 1), ObjectPointer_integer(5)}

\* ObjectPointer::is_young and ObjectPointer::is_mature: the generation of
\* the block of the object; a tagged integer and a permanent pointer are in
\* neither generation.
ObjectPointer_is_young(pointer) ==
    /\ pointer.tag = "regular"
    /\ pointer.address \in DOMAIN process_heap
    /\ process_heap[pointer.address].generation = "young"

ObjectPointer_is_mature(pointer) ==
    /\ pointer.tag = "regular"
    /\ pointer.address \in DOMAIN process_heap
    /\ process_heap[pointer.address].generation = "mature"

\* LocalAllocator::remember_object.
remember_object(pointer) == remembered_set \cup {pointer}

\* The mature objects with a field that points to a young object.
MatureToYoung ==
    {pointer \in HeapPointers :
        /\ ObjectPointer_is_mature(pointer)
        /\ \E field \in DOMAIN process_heap[pointer.address].fields :
            ObjectPointer_is_young(process_heap[pointer.address].fields[field])}

InitBarrier ==
    /\ Block_new
    /\ LocalAllocator_new
    /\ EmptyHeap
    /\ IdleScope
    /\ IdleContext
    /\ IdleTrace
    /\ IdleReclaim
    /\ IdleBarrier
    /\ Mailbox_new
    /\ Process_new
    /\ should_collect_mature = FALSE
    /\ contexts = <<>>
    /\ \E count \in 1..MaxObjects :
        process_heap \in [1..count ->
            {HeapObject(generation, <<ObjectPointer_null>>) :
                generation \in {"young", "mature"}}]

\* A store of written into a field of written_to, by the process that runs.
store(written_to, field, written) ==
    /\ barrier = NoBarrier
    /\ process_heap' = [process_heap EXCEPT ![written_to.address].fields[field] = written]
    /\ barrier' = [written_to |-> written_to, written |-> written]
    /\ UNCHANGED remembered_set
    /\ UNCHANGED <<blockVars, threadVars, historyVars, exceptBarrier>>

write_barrier_remembering_written(written_to, written) ==
    /\ barrier = [written_to |-> written_to, written |-> written]
    /\ barrier # NoBarrier
    /\ remembered_set' =
        IF ObjectPointer_is_mature(written_to) /\ ObjectPointer_is_young(written)
        THEN remember_object(written)
        ELSE remembered_set
    /\ barrier' = NoBarrier
    /\ UNCHANGED process_heap
    /\ UNCHANGED <<blockVars, threadVars, historyVars, exceptBarrier>>

\* Process::write_barrier, called after the store.
write_barrier(written_to, written) ==
    /\ barrier = [written_to |-> written_to, written |-> written]
    /\ barrier # NoBarrier
    /\ remembered_set' =
        IF ObjectPointer_is_mature(written_to) /\ ObjectPointer_is_young(written)
        THEN remember_object(written_to)
        ELSE remembered_set
    /\ barrier' = NoBarrier
    /\ UNCHANGED process_heap
    /\ UNCHANGED <<blockVars, threadVars, historyVars, exceptBarrier>>

NextBarrier ==
    \/ \E written_to \in HeapPointers, written \in WrittenPointers :
        \E field \in DOMAIN process_heap[written_to.address].fields :
            store(written_to, field, written)
    \/ \E written_to \in HeapPointers, written \in WrittenPointers :
        write_barrier(written_to, written)

SpecBarrier == InitBarrier /\ [][NextBarrier]_vars

(***************************************************************************)
(* Process::send_message and Process::receive_message (process.rs), with   *)
(* the mailbox of the spec: at most MaxMessages messages are sent, each    *)
(* one of the objects of a heap of two leaves and a root, by the process   *)
(* itself or by another process.                                           *)
(***************************************************************************)
MaxMessages == 2

\* The roots of the messages: a scalar or an array of the leaves, with or
\* without the first leaf as prototype and the second as attribute.
MessageObjects ==
    {Object("local", value, prototype, attributes) :
        value \in ScalarValues(Root)
                  \cup {ObjectValue("Array", 0, <<1>>, 0),
                        ObjectValue("Array", 0, <<1, 2>>, 0)},
        prototype \in {0, 1},
        attributes \in {<<>>, << << <<2, 2>> >> >>}}

InitMailbox ==
    /\ Block_new
    /\ LocalAllocator_new
    /\ IdleScope
    /\ IdleContext
    /\ IdleTrace
    /\ IdleReclaim
    /\ IdleBarrier
    /\ process_heap = <<>>
    /\ Mailbox_new
    /\ Process_new
    /\ should_collect_mature = FALSE
    /\ contexts = <<>>
    /\ copy = NoCopy
    /\ bindings = <<>>
    /\ \E first \in LeafObjects(1), root \in MessageObjects :
        objects = <<first, Object("local", ObjectValue("Float", 2, <<>>, 0), 0, <<>>),
                    root>>

\* Mailbox::send_from_self: the pointer goes into the internal list as it is.
send_from_self(message) ==
    /\ mailbox.sent < MaxMessages
    /\ mailbox' = [mailbox EXCEPT !.internal =
                      Append(@, [pointer |-> message, message |-> message]),
                                  !.sent = @ + 1]
    /\ UNCHANGED <<write_lock, sending, received, objects, bindings>>
    /\ UNCHANGED <<blockVars, threadVars, historyVars, exceptMailbox>>

\* Mailbox::send_from_external: the sender waits for the write lock and takes
\* it ...
send_from_external_lock ==
    /\ sending # 0
    /\ write_lock = "free"
    /\ write_lock' = "sender"
    /\ UNCHANGED <<mailbox, sending, received, objects, bindings>>
    /\ UNCHANGED <<blockVars, threadVars, historyVars, exceptMailbox>>

\* ... and copies the message onto the mailbox heap, pushes the copy onto the
\* external list and gives the lock back; a panic of copy_object pushes
\* nothing.
send_from_external ==
    /\ write_lock = "sender"
    /\ LET copied == copy_object([objects |-> objects, bindings |-> bindings,
                                  self |-> "mailbox", visits |-> <<>>,
                                  panicked |-> FALSE], sending)
       IN  /\ objects' = copied.heap.objects
           /\ bindings' = copied.heap.bindings
           /\ mailbox' = IF copied.heap.panicked
                         THEN mailbox
                         ELSE [mailbox EXCEPT !.external =
                                  Append(@, [pointer |-> copied.pointer,
                                             message |-> sending])]
    /\ write_lock' = "free"
    /\ sending' = 0
    /\ UNCHANGED received
    /\ UNCHANGED <<blockVars, threadVars, historyVars, exceptMailbox>>

\* Process::send_message, by the process itself or by another one.
send_message(sender, message) ==
    IF sender = "self"
    THEN send_from_self(message)
    ELSE /\ mailbox.sent < MaxMessages
         /\ sending = 0
         /\ sending' = message
         /\ mailbox' = [mailbox EXCEPT !.sent = @ + 1]
         /\ UNCHANGED <<write_lock, received, objects, bindings>>
         /\ UNCHANGED <<blockVars, threadVars, historyVars, exceptMailbox>>

\* Mailbox::receive: a message of the internal list, not to be copied, or else
\* one of the external list, to be copied; <<>> is None.
Mailbox_receive ==
    IF mailbox.internal # <<>>
    THEN [should_copy |-> FALSE, pointer_opt |-> <<Head(mailbox.internal)>>,
          mailbox |-> [mailbox EXCEPT !.internal = Tail(@)]]
    ELSE IF mailbox.external # <<>>
    THEN [should_copy |-> TRUE, pointer_opt |-> <<Head(mailbox.external)>>,
          mailbox |-> [mailbox EXCEPT !.external = Tail(@)]]
    ELSE [should_copy |-> TRUE, pointer_opt |-> <<>>, mailbox |-> mailbox]

received_pointer_not_moved(should_copy, mailbox_pointer) ==
    Result([objects |-> objects, bindings |-> bindings], mailbox_pointer)

\* The pointer receive_message returns for the pointer of the mailbox: the
\* result of move_object of the local allocator when it is to be copied.
received_pointer(should_copy, mailbox_pointer) ==
    IF should_copy
    THEN move_object([objects |-> objects, bindings |-> bindings,
                      self |-> "local", visits |-> <<>>, panicked |-> FALSE],
                     mailbox_pointer)
    ELSE Result([objects |-> objects, bindings |-> bindings], mailbox_pointer)

\* Process::receive_message: a message of another process is moved from the
\* mailbox heap onto the local heap by the local allocator, whose
\* allocate_copy allocates in the eden bucket.
receive_message ==
    /\ status # "SuspendForGc"
    /\ write_lock = "free"
    /\ LET result == Mailbox_receive
       IN  /\ mailbox' = result.mailbox
           /\ IF result.pointer_opt = <<>>
              THEN /\ received' = [NoMessage EXCEPT !.op = "receive_message",
                                                    !.should_copy = TRUE]
                   /\ UNCHANGED <<objects, bindings>>
              ELSE LET mailbox_pointer == result.pointer_opt[1]
                       moved == received_pointer(result.should_copy,
                                                 mailbox_pointer.pointer)
                   IN  /\ objects' = moved.heap.objects
                       /\ bindings' = moved.heap.bindings
                       /\ received' = [op |-> "receive_message",
                                       should_copy |-> result.should_copy,
                                       cell |-> mailbox_pointer.pointer,
                                       message |-> mailbox_pointer.message,
                                       pointer |-> moved.pointer,
                                       bucket |-> IF result.should_copy
                                                  THEN eden_space_mut
                                                  ELSE NoBucket]
    /\ UNCHANGED <<write_lock, sending>>
    /\ UNCHANGED <<blockVars, threadVars, historyVars, exceptMailbox>>

NextMailbox ==
    \/ \E sender \in {"self", "other"}, message \in 1..Root :
        send_message(sender, message)
    \/ send_from_external_lock
    \/ send_from_external
    \/ receive_message

SpecMailbox == InitMailbox /\ [][NextMailbox]_vars

(***************************************************************************)
(* Collection requests (gc/request.rs) and the collectors: the mailbox     *)
(* collector of gc/mailbox_collector.rs and the heap collector of the      *)
(* spec, each performed step by step by a GC worker while other processes   *)
(* send messages.  At most MaxCollections collections are requested.        *)
(***************************************************************************)
MaxCollections == 2

\* The collections requested so far.
Collections ==
    statistics.young_collections + statistics.mature_collections
    + statistics.mailbox_collections
    + (IF request # NoRequest THEN 1 ELSE 0)

\* The scheduler takes the process out of its queue and runs it.
Process_running ==
    /\ status = "Scheduled"
    /\ pool > 0
    /\ status' = "Running"
    /\ pool' = pool - 1
    /\ UNCHANGED <<should_collect_mature, contexts, statistics, request,
                   collector, marked>>
    /\ UNCHANGED <<blockVars, threadVars, historyVars, exceptCollector,
                   barrierVars, mailboxVars>>

\* The running process allocates blocks for its mature generation until its
\* allocator asks for a collection of that generation.
allocate_mature_blocks ==
    /\ status = "Running"
    /\ ~should_collect_mature
    /\ should_collect_mature' = TRUE
    /\ UNCHANGED <<status, contexts, statistics, pool, request, collector, marked>>
    /\ UNCHANGED <<blockVars, threadVars, historyVars, exceptCollector,
                   barrierVars, mailboxVars>>

\* Process::should_collect_mature_generation
should_collect_mature_generation == should_collect_mature

Request_new_always_young(collection_type) ==
    [collection_type |-> collection_type,
     profile |-> IF collection_type = "Heap" THEN "young" ELSE "mailbox"]

\* Request::new: the profile is full or young for a heap request, by
\* should_collect_mature_generation, and mailbox for a mailbox request.
Request_new(collection_type) ==
    [collection_type |-> collection_type,
     profile |-> IF collection_type = "Heap"
                 THEN IF should_collect_mature_generation
                      THEN "full"
                      ELSE "young"
                 ELSE "mailbox"]

\* The running process suspends itself for a collection and queues the
\* request for it (Request::heap, Request::mailbox).
request_collection(collection_type) ==
    /\ status = "Running"
    /\ request = NoRequest
    /\ Collections < MaxCollections
    /\ status' = "SuspendForGc"
    /\ request' = Request_new(collection_type)
    /\ UNCHANGED <<should_collect_mature, contexts, statistics, pool,
                   collector, marked>>
    /\ UNCHANGED <<blockVars, threadVars, historyVars, exceptCollector,
                   barrierVars, mailboxVars>>

\* Request::perform: a GC worker enters the heap collector or the mailbox
\* collector, by the type of the request.
perform ==
    /\ request # NoRequest
    /\ collector.pc = "idle"
    /\ collector' = [pc |-> IF request.collection_type = "Heap"
                            THEN "prepare"
                            ELSE "lock",
                     collection_type |-> request.collection_type,
                     mature |-> (request.profile = "full"),
                     reclaimed |-> FALSE, counted |-> FALSE]
    /\ UNCHANGED <<status, should_collect_mature, contexts, statistics, pool,
                   request, marked>>
    /\ UNCHANGED <<blockVars, threadVars, historyVars, exceptCollector,
                   barrierVars, mailboxVars>>

\* A step of a collector that changes nothing but the collector, the marks,
\* the counters and the write lock.
CollectorStep ==
    /\ UNCHANGED <<status, contexts, pool, request>>
    /\ UNCHANGED <<mailbox, sending, received, process_heap, barrier>>
    /\ UNCHANGED <<blockVars, threadVars, historyVars, exceptCollector>>

mailbox_collect_without_lock ==
    /\ collector.collection_type = "Mailbox"
    /\ collector.pc = "lock"
    /\ collector' = [collector EXCEPT !.pc = "prepare"]
    /\ UNCHANGED <<write_lock, marked, statistics, should_collect_mature,
                   remembered_set>>
    /\ CollectorStep

\* mailbox_collector::collect, line 20: the write lock is taken.
mailbox_collect_lock ==
    /\ collector.collection_type = "Mailbox"
    /\ collector.pc = "lock"
    /\ write_lock = "free"
    /\ write_lock' = "collector"
    /\ collector' = [collector EXCEPT !.pc = "prepare"]
    /\ UNCHANGED <<marked, statistics, should_collect_mature, remembered_set>>
    /\ CollectorStep

\* The locals of a binding and of its parents.
RECURSIVE ChainLocals(_, _)
ChainLocals(heap, binding) ==
    IF binding = 0
    THEN {}
    ELSE {heap.bindings[binding].locals[local] :
             local \in DOMAIN heap.bindings[binding].locals}
         \cup ChainLocals(heap, heap.bindings[binding].parent)

\* The pointers an object holds: its array elements, its prototype, the keys
\* and values of its attributes, the locals of its binding and their parents.
\* A permanent object is not followed.
Fields(heap, pointer) ==
    IF heap.objects[pointer].heap = "permanent"
    THEN {}
    ELSE LET object == heap.objects[pointer]
         IN ({object.value.elements[element] : element \in DOMAIN object.value.elements}
             \cup {object.prototype}
             \cup (IF object.attributes = <<>>
                   THEN {}
                   ELSE UNION {{object.attributes[1][pair][1],
                                object.attributes[1][pair][2]} :
                                   pair \in DOMAIN object.attributes[1]})
             \cup ChainLocals(heap, object.value.binding)) \ {0}

\* The objects reachable from a set of pointers.
RECURSIVE ReachableFrom(_, _)
ReachableFrom(heap, pointers) ==
    LET further == pointers \cup UNION {Fields(heap, pointer) : pointer \in pointers}
    IN IF further = pointers THEN pointers ELSE ReachableFrom(heap, further)

Reachable(heap, pointer) == ReachableFrom(heap, {pointer})

\* The objects a trace marks from a set of pointers: those reachable from
\* them, the permanent ones left out.
Traced(pointers) ==
    {pointer \in ReachableFrom([objects |-> objects, bindings |-> bindings],
                               pointers) :
        objects[pointer].heap # "permanent"}

\* Mailbox::mailbox_pointers
mailbox_pointers ==
    {mailbox.internal[entry].pointer : entry \in DOMAIN mailbox.internal}
    \cup {mailbox.external[entry].pointer : entry \in DOMAIN mailbox.external}

\* A step of the mailbox collector that changes the result of the trace as
\* well.
TraceStep ==
    /\ UNCHANGED <<status, contexts, pool, request>>
    /\ UNCHANGED <<mailbox, sending, received, process_heap, barrier>>
    /\ UNCHANGED <<blockVars, threadVars, historyVars, exceptTrace>>

\* The block of a heap that holds an object is flagged as fragmented
\* (block_mut().fragmented = true).
block_mut_fragmented(heap) ==
    /\ heap \notin fragmented
    /\ \E pointer \in DOMAIN objects : objects[pointer].heap = heap
    /\ fragmented' = fragmented \cup {heap}
    /\ UNCHANGED <<trace_result, index_call>>
    /\ UNCHANGED <<blockVars, threadVars, historyVars>>
    /\ UNCHANGED <<allocatorVars, heapVars, bindingVars, scopeVars, barrierVars,
                   mailboxVars, collectorVars, contextVars, reclaimVars, lineVars>>

\* MailboxAllocator::prepare_for_collection returns whether objects are to be
\* moved: whether a block of the mailbox allocator is flagged as fragmented.
MailboxAllocator_prepare_for_collection == "mailbox" \in fragmented

\* line 21: prepare_for_collection of the mailbox allocator resets the marks
\* and tells whether to move objects.
mailbox_collect_prepare ==
    /\ collector.collection_type = "Mailbox"
    /\ collector.pc = "prepare"
    /\ marked' = [marked EXCEPT !.mailbox = {}]
    /\ trace_result' = [NoTrace EXCEPT
                           !.move_objects = MailboxAllocator_prepare_for_collection]
    /\ collector' = [collector EXCEPT !.pc = "trace"]
    /\ UNCHANGED <<fragmented, index_call, write_lock, statistics,
                   should_collect_mature, remembered_set>>
    /\ TraceStep

\* Mailbox::mailbox_pointers as the list the trace begins with: the internal
\* pointers, then the external ones.
mailbox_roots ==
    [entry \in DOMAIN mailbox.internal |-> mailbox.internal[entry].pointer]
    \o [entry \in DOMAIN mailbox.external |-> mailbox.external[entry].pointer]

\* The pointers of a set, one after the other.
RECURSIVE Enqueued(_)
Enqueued(pointers) ==
    IF pointers = {}
    THEN <<>>
    ELSE LET first == CHOOSE pointer \in pointers :
                          \A other \in pointers : pointer <= other
         IN <<first>> \o Enqueued(pointers \ {first})

\* The bucket of an object is to be promoted when it is a bucket of the young
\* generation that reached the maximum age in a heap collection; the bucket
\* of the mailbox allocator has no age.
Bucket_promote(heap) ==
    /\ heap = "local"
    /\ collector.collection_type = "Heap"
    /\ young_generation[eden_index].age >= YOUNG_MAX_AGE

TraceResult_new ==
    [marks |-> {}, marked |-> 0, evacuated |-> 0, promoted |-> 0, moved |-> {}]

\* collector::trace_pointers_with_moving and trace_pointers_without_moving:
\* a pointer is taken from the list; a marked or permanent object is left
\* alone; when objects move, an object of a bucket to promote is promoted and
\* an object of a fragmented block is evacuated; the object is marked and
\* the pointers it holds are put on the list.
RECURSIVE trace_pointers(_, _, _)
trace_pointers(move_objects, result, worklist) ==
    IF worklist = <<>>
    THEN result
    ELSE LET pointer == Head(worklist)
             heap == objects[pointer].heap
             promote == move_objects /\ Bucket_promote(heap)
             evacuate == move_objects /\ ~promote /\ heap \in fragmented
         IN IF heap = "permanent" \/ pointer \in result.marks
            THEN trace_pointers(move_objects, result, Tail(worklist))
            ELSE trace_pointers(move_objects,
                     [marks |-> result.marks \cup {pointer},
                      marked |-> result.marked + 1,
                      evacuated |-> result.evacuated + (IF evacuate THEN 1 ELSE 0),
                      promoted |-> result.promoted + (IF promote THEN 1 ELSE 0),
                      moved |-> IF promote \/ evacuate
                                THEN result.moved \cup {pointer}
                                ELSE result.moved],
                     Tail(worklist)
                     \o Enqueued(Fields([objects |-> objects, bindings |-> bindings],
                                        pointer)))

\* A trace that moves objects whatever prepare_for_collection returned.
trace_always_moving(move_objects) ==
    trace_pointers(TRUE, TraceResult_new, mailbox_roots)
    @@ [moving |-> TRUE, roots |-> mailbox_roots]

\* mailbox_collector::trace: the roots are the pointers of the mailbox, and
\* the moving trace is the one used when move_objects is set.
trace(move_objects) ==
    trace_pointers(move_objects, TraceResult_new, mailbox_roots)
    @@ [moving |-> move_objects, roots |-> mailbox_roots]

\* line 26: trace marks what is reachable from the pointers of the mailbox.
mailbox_collect_trace ==
    /\ collector.collection_type = "Mailbox"
    /\ collector.pc = "trace"
    /\ LET result == trace(trace_result.move_objects)
       IN  /\ marked' = [marked EXCEPT !.mailbox = result.marks]
           /\ trace_result' = [move_objects |-> trace_result.move_objects,
                               moving |-> result.moving,
                               roots |-> result.roots,
                               marked |-> result.marked,
                               evacuated |-> result.evacuated,
                               promoted |-> result.promoted,
                               moved |-> result.moved]
    /\ collector' = [collector EXCEPT !.pc = "reclaim"]
    /\ UNCHANGED <<fragmented, index_call, write_lock, statistics,
                   should_collect_mature, remembered_set>>
    /\ TraceStep

\* line 31: reclaim_blocks of the mailbox allocator.
mailbox_collect_reclaim ==
    /\ collector.collection_type = "Mailbox"
    /\ collector.pc = "reclaim"
    /\ collector' = [collector EXCEPT !.pc = "statistics", !.reclaimed = TRUE]
    /\ UNCHANGED <<marked, write_lock, statistics, should_collect_mature,
                   remembered_set>>
    /\ CollectorStep

\* line 32: Process::update_mailbox_collection_statistics.
update_mailbox_collection_statistics ==
    /\ collector.collection_type = "Mailbox"
    /\ collector.pc = "statistics"
    /\ statistics' = [statistics EXCEPT !.mailbox_collections = @ + 1]
    /\ collector' = [collector EXCEPT !.pc = "unlock", !.counted = TRUE]
    /\ UNCHANGED <<marked, write_lock, should_collect_mature, remembered_set>>
    /\ CollectorStep

\* line 33: drop(lock).
mailbox_collect_unlock ==
    /\ collector.collection_type = "Mailbox"
    /\ collector.pc = "unlock"
    /\ write_lock' = "free"
    /\ collector' = [collector EXCEPT !.pc = "schedule"]
    /\ UNCHANGED <<marked, statistics, should_collect_mature, remembered_set>>
    /\ CollectorStep

schedule_twice ==
    /\ collector.pc = "schedule"
    /\ pool' = pool + 2
    /\ status' = "Scheduled"
    /\ request' = NoRequest
    /\ collector' = [collector EXCEPT !.pc = "idle"]
    /\ UNCHANGED <<should_collect_mature, contexts, statistics, marked>>
    /\ UNCHANGED <<blockVars, threadVars, historyVars, exceptCollector,
                   barrierVars, mailboxVars>>

\* line 40, and the end of the heap collector: process_pools.schedule puts
\* the process in the queue of the scheduler, with the status Scheduled; the
\* request has been performed.
schedule ==
    /\ collector.pc = "schedule"
    /\ pool' = pool + 1
    /\ status' = "Scheduled"
    /\ request' = NoRequest
    /\ collector' = [collector EXCEPT !.pc = "idle"]
    /\ UNCHANGED <<should_collect_mature, contexts, statistics, marked>>
    /\ UNCHANGED <<blockVars, threadVars, historyVars, exceptCollector,
                   barrierVars, mailboxVars>>

\* The pointers in the fields of an object of the process heap.
HeapFields(pointer) ==
    {process_heap[pointer.address].fields[field] :
        field \in DOMAIN process_heap[pointer.address].fields}

\* The roots among the execution contexts: the registers and the binding
\* locals of every context of the chain.
context_pointers ==
    UNION {{contexts[context].registers[register] :
                register \in DOMAIN contexts[context].registers}
           \cup {contexts[context].locals[local] :
                    local \in DOMAIN contexts[context].locals} :
           context \in DOMAIN contexts}

heap_roots_without_remembered_set(mature) == context_pointers

\* The roots of a heap collection: the contexts, and for a young collection
\* the pointers held by the objects of the remembered set.
heap_roots(mature) ==
    context_pointers
    \cup (IF mature
          THEN {}
          ELSE UNION {HeapFields(pointer) : pointer \in remembered_set})

\* The trace without moving: an object of the worklist that is not marked is
\* marked and the pointers it holds go onto the worklist; a marked object, a
\* tagged integer, a permanent pointer and null are passed over.
RECURSIVE trace_pointers_without_moving(_, _)
trace_pointers_without_moving(marks, worklist) ==
    LET unmarked == {pointer \in worklist :
                        /\ pointer.tag = "regular"
                        /\ pointer.address \in DOMAIN process_heap
                        /\ pointer.address \notin marks}
    IN  IF unmarked = {}
        THEN marks
        ELSE trace_pointers_without_moving(
                 marks \cup {pointer.address : pointer \in unmarked},
                 UNION {HeapFields(pointer) : pointer \in unmarked})

\* The heap collector, prepare: the marks of the objects of the generations
\* that are collected are reset.
heap_collect_prepare ==
    /\ collector.collection_type = "Heap"
    /\ collector.pc = "prepare"
    /\ marked' = [marked EXCEPT !.heap =
                     IF collector.mature
                     THEN {}
                     ELSE {address \in @ :
                              process_heap[address].generation = "mature"}]
    /\ collector' = [collector EXCEPT !.pc = "trace"]
    /\ UNCHANGED <<write_lock, statistics, should_collect_mature, remembered_set>>
    /\ CollectorStep

\* The heap collector, trace: the objects reachable from the roots are
\* marked; the remembered set is drained by a young trace and dropped after
\* a full one.
heap_collect_trace ==
    /\ collector.collection_type = "Heap"
    /\ collector.pc = "trace"
    /\ marked' = [marked EXCEPT !.heap =
                     trace_pointers_without_moving(@, heap_roots(collector.mature))]
    /\ remembered_set' = {}
    /\ collector' = [collector EXCEPT !.pc = "reclaim"]
    /\ UNCHANGED <<write_lock, statistics, should_collect_mature>>
    /\ CollectorStep

\* The heap collector, reclaim: Process::reclaim_blocks.
heap_collect_reclaim ==
    /\ collector.collection_type = "Heap"
    /\ collector.pc = "reclaim"
    /\ collector' = [collector EXCEPT !.pc = "statistics", !.reclaimed = TRUE]
    /\ UNCHANGED <<marked, write_lock, statistics, should_collect_mature,
                   remembered_set>>
    /\ CollectorStep

\* Process::update_collection_statistics: the collection is counted, and the
\* allocator starts to count the allocated blocks anew.
update_collection_statistics ==
    /\ collector.collection_type = "Heap"
    /\ collector.pc = "statistics"
    /\ statistics' = IF collector.mature
                     THEN [statistics EXCEPT !.mature_collections = @ + 1]
                     ELSE [statistics EXCEPT !.young_collections = @ + 1]
    /\ should_collect_mature' = (should_collect_mature /\ ~collector.mature)
    /\ collector' = [collector EXCEPT !.pc = "schedule", !.counted = TRUE]
    /\ UNCHANGED <<marked, write_lock, remembered_set>>
    /\ CollectorStep

\* A process with one young object in a register, scheduled to run, and
\* another process with one object to send (test_perform, test_collect).
InitCollector ==
    /\ Block_new
    /\ LocalAllocator_new
    /\ IdleScope
    /\ IdleContext
    /\ IdleTrace
    /\ IdleReclaim
    /\ IdleBarrier
    /\ Mailbox_new
    /\ Process_new
    /\ copy = NoCopy
    /\ bindings = <<>>
    /\ objects = <<Object("local", ObjectValue("Float", 1, <<>>, 0), 0, <<>>)>>
    /\ process_heap = <<HeapObject("young", <<ObjectPointer_null>>)>>
    /\ contexts = <<[registers |-> <<ObjectPointer("regular", 1)>>, locals |-> <<>>]>>
    /\ should_collect_mature = FALSE

\* A running process with at most MaxObjects objects on its heap, each young
\* or mature, the mature ones marked and those that point to a young object
\* remembered, and two execution contexts: one with a register and its
\* parent with a binding local.
InitHeapCollector ==
    /\ Block_new
    /\ LocalAllocator_new
    /\ EmptyHeap
    /\ IdleScope
    /\ IdleContext
    /\ IdleTrace
    /\ IdleReclaim
    /\ Mailbox_new
    /\ barrier = NoBarrier
    /\ status = "Running"
    /\ statistics = [young_collections |-> 0, mature_collections |-> 0,
                     mailbox_collections |-> 0]
    /\ pool = 0
    /\ request = NoRequest
    /\ collector = NoCollector
    /\ should_collect_mature \in BOOLEAN
    /\ \E count \in 1..MaxObjects :
        LET held == {ObjectPointer_null, ObjectPointer_integer(5)}
                    \cup {ObjectPointer("regular", address) : address \in 1..count}
        IN  /\ process_heap \in [1..count ->
                    {HeapObject(generation, <<field>>) :
                        generation \in {"young", "mature"}, field \in held}]
            /\ \E register \in held, local \in held :
                contexts = <<[registers |-> <<register>>, locals |-> <<>>],
                             [registers |-> <<>>, locals |-> <<local>>]>>
    /\ remembered_set = MatureToYoung
    /\ marked = [heap |-> {address \in DOMAIN process_heap :
                              process_heap[address].generation = "mature"},
                 mailbox |-> {}]

\* One heap collection of the process.
NextHeapCollector ==
    \/ allocate_mature_blocks
    \/ request_collection("Heap")
    \/ perform
    \/ heap_collect_prepare
    \/ heap_collect_trace
    \/ heap_collect_reclaim
    \/ update_collection_statistics
    \/ schedule

SpecHeapCollector == InitHeapCollector /\ [][NextHeapCollector]_vars

NextCollector ==
    \/ Process_running
    \/ allocate_mature_blocks
    \/ \E collection_type \in {"Heap", "Mailbox"} : request_collection(collection_type)
    \/ perform
    \/ mailbox_collect_lock
    \/ mailbox_collect_prepare
    \/ mailbox_collect_trace
    \/ mailbox_collect_reclaim
    \/ update_mailbox_collection_statistics
    \/ mailbox_collect_unlock
    \/ heap_collect_prepare
    \/ heap_collect_trace
    \/ heap_collect_reclaim
    \/ update_collection_statistics
    \/ schedule
    \/ send_message("other", 1)
    \/ send_from_external_lock
    \/ send_from_external

SpecCollector == InitCollector /\ [][NextCollector]_vars

\* The GC worker that has a request goes on with it, step by step, and gets
\* the write lock when it is free often enough; a sender that holds the lock
\* goes on to give it back.
SpecCollectorFair ==
    /\ SpecCollector
    /\ WF_vars(perform)
    /\ SF_vars(mailbox_collect_lock)
    /\ WF_vars(mailbox_collect_prepare)
    /\ WF_vars(mailbox_collect_trace)
    /\ WF_vars(mailbox_collect_reclaim)
    /\ WF_vars(update_mailbox_collection_statistics)
    /\ WF_vars(mailbox_collect_unlock)
    /\ WF_vars(heap_collect_prepare)
    /\ WF_vars(heap_collect_trace)
    /\ WF_vars(heap_collect_reclaim)
    /\ WF_vars(update_collection_statistics)
    /\ WF_vars(schedule)
    /\ WF_vars(send_from_external)

(***************************************************************************)
(* The execution contexts and the status of the process                    *)
(* (src/vm/src/process.rs).                                                *)
(***************************************************************************)
\* The contexts pushed, the instructions run and the timeouts that expire.
MaxContexts == 2
MaxInstructions == 2
MaxTimeouts == 2

ProcessStatus ==
    {"Scheduled", "Running", "Suspended", "SuspendForGc", "WaitingForMessage",
     "Finished"}

\* Process::set_status, behind running, finished, scheduled, suspended,
\* suspend_for_gc and waiting_for_message.
set_status(new_status) ==
    /\ status # new_status
    /\ status' = new_status
    /\ context_call' = [context_call EXCEPT !.op = "set_status",
                                            !.returned = FALSE]
    /\ UNCHANGED <<local_data, should_collect_mature, contexts, statistics,
                   pool, request, collector, marked>>
    /\ UNCHANGED <<blockVars, threadVars, historyVars, exceptContext>>

\* Process::push_context: the new context takes the place of the current one
\* and gets it as its parent.
push_context ==
    /\ context_call.pushes < MaxContexts
    /\ local_data' =
           [local_data EXCEPT !.context =
               <<ExecutionContext(context_call.pushes + 1)>> \o @]
    /\ context_call' = [context_call EXCEPT !.op = "push_context",
                                            !.returned = FALSE,
                                            !.pushes = @ + 1]
    /\ UNCHANGED <<blockVars, threadVars, historyVars, exceptContext,
                   collectorVars>>

\* Process::pop_context with the parent of the current context left in place.
pop_context_keeping_current ==
    /\ local_data' = local_data
    /\ context_call' =
           [context_call EXCEPT !.op = "pop_context",
                                !.returned = Len(local_data.context) = 1,
                                !.pops = IF Len(local_data.context) > 1
                                         THEN @ + 1 ELSE @]
    /\ UNCHANGED <<blockVars, threadVars, historyVars, exceptContext,
                   collectorVars>>

\* Process::pop_context: the parent of the current context, if it has one,
\* becomes the current context and false is returned; true otherwise.
pop_context ==
    /\ local_data' =
           [local_data EXCEPT !.context =
               IF Len(@) > 1 THEN Tail(@) ELSE @]
    /\ context_call' =
           [context_call EXCEPT !.op = "pop_context",
                                !.returned = Len(local_data.context) = 1,
                                !.pops = IF Len(local_data.context) > 1
                                         THEN @ + 1 ELSE @]
    /\ UNCHANGED <<blockVars, threadVars, historyVars, exceptContext,
                   collectorVars>>

\* Process::advance_instruction_index, as an operator on the local data.
advanced(data) ==
    [data EXCEPT !.context[1].instruction_index = @ + 1]

\* Process::advance_instruction_index, called by the interpreter.
advance_instruction_index ==
    /\ local_data.context[1].instruction_index < MaxInstructions
    /\ local_data' = advanced(local_data)
    /\ context_call' = [context_call EXCEPT !.op = "advance_instruction_index",
                                            !.returned = FALSE]
    /\ UNCHANGED <<blockVars, threadVars, historyVars, exceptContext,
                   collectorVars>>

\* Process::wakeup_after_suspension_timeout that skips the instruction in
\* every status.
wakeup_after_suspension_timeout_in_any_status(data) ==
    advanced(data)

\* Process::wakeup_after_suspension_timeout: a process that is waiting for a
\* message does not retry the receive.
wakeup_after_suspension_timeout(data) ==
    IF status = "WaitingForMessage" THEN advanced(data) ELSE data

\* The suspension timeout of the process expires: the process is woken up
\* and handed to the scheduler, as schedule does after a collection.
suspension_timeout ==
    /\ context_call.timeouts < MaxTimeouts
    /\ local_data.context[1].instruction_index < MaxInstructions
    /\ local_data' = wakeup_after_suspension_timeout(local_data)
    /\ status' = "Scheduled"
    /\ pool' = pool + 1
    /\ context_call' =
           [context_call EXCEPT !.op = "wakeup_after_suspension_timeout",
                                !.returned = status = "WaitingForMessage",
                                !.timeouts = @ + 1]
    /\ UNCHANGED <<should_collect_mature, contexts, statistics, request,
                   collector, marked>>
    /\ UNCHANGED <<blockVars, threadVars, historyVars, exceptContext>>

NextContext ==
    \/ \E new_status \in ProcessStatus : set_status(new_status)
    \/ push_context
    \/ pop_context
    \/ advance_instruction_index
    \/ suspension_timeout

SpecContext == Init /\ [][NextContext]_vars

(***************************************************************************)
(* Process::reclaim_all_blocks and Process::reclaim_and_finalize           *)
(* (src/vm/src/process.rs), called when the process has finished.  The     *)
(* block the model follows is block 1, the first block of the eden bucket; *)
(* of the other blocks only the list they are in is followed.              *)
(***************************************************************************)
MailboxBucket == [generation |-> "mailbox", position |-> 0]

\* A process with its first block in the eden bucket, and with or without
\* a block in the mature bucket and in the bucket of the mailbox allocator.
InitReclaim ==
    /\ Block_new
    /\ EmptyHeap
    /\ IdleScope
    /\ IdleContext
    /\ IdleTrace
    /\ IdleBarrier
    /\ process_heap = <<>>
    /\ Mailbox_new
    /\ Process_new
    /\ should_collect_mature = FALSE
    /\ contexts = <<>>
    /\ reclaim = NoReclaim
    /\ eden_index = 0
    /\ allocation = NoAllocation
    /\ young_generation =
           [position \in 0..3 |->
               IF position = 0
               THEN Bucket_add_block(Bucket_with_age(0), 1)
               ELSE Bucket_with_age(-position)]
    /\ \E mature_blocks \in {<<>>, <<2>>} :
       \E mailbox_blocks \in {<<>>, <<Len(mature_blocks) + 2>>} :
        /\ mature_generation =
               IF mature_blocks = <<>>
               THEN Bucket_new
               ELSE Bucket_add_block(Bucket_new, 2)
        /\ mailbox_allocator = [blocks |-> mailbox_blocks]
        /\ global_allocator = 1 + Len(mature_blocks) + Len(mailbox_blocks)
        /\ heap_blocks =
               [block \in 1..(1 + Len(mature_blocks) + Len(mailbox_blocks)) |->
                   IF block = 1
                   THEN [free |-> start_address, bucket |-> YoungBucket(0)]
                   ELSE [free |-> start_address + 1,
                         bucket |-> IF mature_blocks # <<>> /\ block = 2
                                    THEN MatureBucket
                                    ELSE MailboxBucket]]

\* The blocks of every bucket of the process, in the order in which
\* reclaim_all_blocks appends them.
AllBlocks ==
    young_generation[0].blocks \o young_generation[1].blocks
        \o young_generation[2].blocks \o young_generation[3].blocks
        \o mature_generation.blocks \o mailbox_allocator.blocks

\* The block a list of blocks is at.
BlockAt == reclaim.blocks[reclaim.at]

\* Process::reclaim_all_blocks: BlockList::append moves the blocks of each
\* bucket to the list and leaves the bucket without a block.
reclaim_all_blocks ==
    /\ OwnerIdle
    /\ reclaim.pc = "idle"
    /\ allocation.pc = "idle"
    /\ young_generation' =
           [position \in 0..3 |->
               [young_generation[position] EXCEPT !.blocks = <<>>,
                                                  !.current = 0]]
    /\ mature_generation' =
           [mature_generation EXCEPT !.blocks = <<>>, !.current = 0]
    /\ mailbox_allocator' = [mailbox_allocator EXCEPT !.blocks = <<>>]
    /\ reclaim' = [NoReclaim EXCEPT
                      !.pc = "loop",
                      !.blocks = AllBlocks,
                      !.at = 1,
                      !.owned = {AllBlocks[position] :
                                    position \in DOMAIN AllBlocks},
                      !.finalizable = finalize_bitmap]
    /\ pc' = [pc EXCEPT ![Owner] = "rf_loop"]
    /\ call' = [NoCall EXCEPT !.op = "reclaim_and_finalize"]
    /\ last' = NoLast
    /\ UNCHANGED <<blockVars, stack, index, drops, fresh, late>>
    /\ UNCHANGED <<eden_index, heap_blocks, global_allocator, allocation>>
    /\ UNCHANGED exceptReclaim

\* A loop that goes on to prepare_finalization with the marks in place.
reclaim_keeping_mark_bitmaps ==
    /\ pc[Owner] = "rf_loop"
    /\ reclaim.at <= Len(reclaim.blocks)
    /\ BlockAt = 1
    /\ pc' = [pc EXCEPT ![Owner] = "rf_prepare"]
    /\ UNCHANGED <<blockVars, stack, index, call, historyVars>>
    /\ UNCHANGED processVars

\* block.reset_mark_bitmaps(), on the block the model follows.
reclaim_reset_mark_bitmaps ==
    /\ pc[Owner] = "rf_loop"
    /\ reclaim.at <= Len(reclaim.blocks)
    /\ BlockAt = 1
    /\ used_lines_bitmap' = {}
    /\ marked_objects_bitmap' = {}
    /\ pc' = [pc EXCEPT ![Owner] = "rf_prepare"]
    /\ UNCHANGED <<free_pointer, end_pointer, finalizing, finalize_bitmap,
                   pending_finalization_bitmap, header, memory, mutex,
                   allocated, stack, index, call, historyVars>>
    /\ LineMap_reset
    /\ UNCHANGED exceptLine

\* block.prepare_finalization(): the call drains the pending bitmap first
\* when the block is still being finalized, and returns to the reset.
reclaim_prepare_finalization ==
    /\ pc[Owner] = "rf_prepare"
    /\ call' = [op |-> "prepare_finalization", object |-> "None",
                saw |-> is_finalizing]
    /\ IF is_finalizing
       THEN /\ pc' = [pc EXCEPT ![Owner] = "fp_lock"]
            /\ stack' = [stack EXCEPT ![Owner] = <<"pf_lock", "rf_reset">>]
       ELSE /\ pc' = [pc EXCEPT ![Owner] = "pf_lock"]
            /\ stack' = [stack EXCEPT ![Owner] = <<"rf_reset">>]
    /\ UNCHANGED <<blockVars, index, historyVars>>
    /\ UNCHANGED processVars

\* block.reset()
reclaim_reset ==
    /\ pc[Owner] = "rf_reset"
    /\ header' = BlockHeader_reset
    /\ free_pointer' = start_address
    /\ end_pointer' = end_address
    /\ used_lines_bitmap' = {}
    /\ marked_objects_bitmap' = {}
    /\ finalize_bitmap' = {}
    /\ heap_blocks' = [heap_blocks EXCEPT
                          ![1] = [free |-> start_address, bucket |-> NoBucket]]
    /\ last' = Did("reset")
    /\ fresh' = -1
    /\ pc' = [pc EXCEPT ![Owner] = "rf_schedule"]
    /\ UNCHANGED <<finalizing, pending_finalization_bitmap, memory, mutex,
                   allocated, stack, index, call, drops, late>>
    /\ UNCHANGED <<young_generation, eden_index, mature_generation,
                   global_allocator, allocation>>
    /\ LineMap_reset
    /\ UNCHANGED <<reclaimVars, heapVars, bindingVars, scopeVars, barrierVars,
                   mailboxVars, collectorVars, contextVars, traceVars>>

\* state.finalizer_pool.schedule(DerefPointer::new(block)), whatever
\* prepare_finalization returned.
reclaim_schedule ==
    /\ pc[Owner] = "rf_schedule"
    /\ reclaim' = [reclaim EXCEPT !.finalizer_pool = Append(@, BlockAt),
                                  !.at = @ + 1]
    /\ pc' = [pc EXCEPT ![Owner] = "rf_loop"]
    /\ UNCHANGED <<blockVars, stack, index, call, historyVars>>
    /\ UNCHANGED <<allocatorVars, mailbox_allocator, exceptReclaim>>

\* One turn of the loop for a block the model does not follow.
reclaim_block ==
    /\ pc[Owner] = "rf_loop"
    /\ reclaim.at <= Len(reclaim.blocks)
    /\ BlockAt # 1
    /\ heap_blocks' = [heap_blocks EXCEPT
                          ![BlockAt] = [free |-> start_address,
                                        bucket |-> NoBucket]]
    /\ reclaim' = [reclaim EXCEPT !.finalizer_pool = Append(@, BlockAt),
                                  !.at = @ + 1]
    /\ UNCHANGED <<blockVars, threadVars, historyVars>>
    /\ UNCHANGED <<young_generation, eden_index, mature_generation,
                   global_allocator, allocation>>
    /\ UNCHANGED <<mailbox_allocator, exceptReclaim>>

\* state.global_allocator.add_blocks(&mut blocks): the blocks move from the
\* list to the global allocator.
reclaim_add_blocks ==
    /\ pc[Owner] = "rf_loop"
    /\ reclaim.at > Len(reclaim.blocks)
    /\ reclaim' = [reclaim EXCEPT !.returned = @ \o reclaim.blocks,
                                  !.blocks = <<>>,
                                  !.pc = "done"]
    /\ pc' = [pc EXCEPT ![Owner] = "idle"]
    /\ call' = NoCall
    /\ UNCHANGED <<blockVars, stack, index, historyVars>>
    /\ UNCHANGED <<allocatorVars, mailbox_allocator, exceptReclaim>>

\* The process allocates into its first block, a collector marks objects
\* and prepares the block for finalization, and the workers of the
\* finalizer pool finalize it, until the process has finished and its
\* blocks are reclaimed.
NextReclaim ==
    \/ \E object \in Values :
        /\ reclaim.pc = "idle"
        /\ WithinSlots(MaxSlots)
        /\ bump_allocate(object)
    \/ bump_allocate_write
    \/ \E slot \in DOMAIN memory : reclaim.pc = "idle" /\ mark(slot)
    \/ reclaim.pc = "idle" /\ prepare_finalization
    \/ prepare_finalization_lock
    \/ prepare_finalization_body
    \/ prepare_finalization_return
    \/ \E t \in Workers : finalize_pending_call(t)
    \/ \E t \in Threads : finalize_pending_lock(t)
    \/ \E t \in Threads : finalize_pending_check(t)
    \/ \E t \in Threads : finalize_pending_loop(t)
    \/ \E t \in Threads : finalize_pending_store(t)
    \/ \E t \in Threads : finalize_pending_return(t)
    \/ reclaim_all_blocks
    \/ reclaim_reset_mark_bitmaps
    \/ reclaim_prepare_finalization
    \/ reclaim_reset
    \/ reclaim_schedule
    \/ reclaim_block
    \/ reclaim_add_blocks

SpecReclaim == InitReclaim /\ [][NextReclaim]_vars

(***************************************************************************)
(* The line marks across the cycles of a collector:                        *)
(* Block::prepare_for_collection and Block::update_line_map                *)
(* (src/vm/src/immix/block.rs).  A collector prepares a block, traces, and *)
(* updates the line map of the block when it reclaims, in this order       *)
(* (src/vm/src/gc/mailbox_collector.rs).                                   *)
(***************************************************************************)

\* LineMap::swap_mark_value: the marks of the lines that are set become the
\* marks of the previous cycle, and the other way round.
swap_mark_value == used_lines_bitmap \ previous_lines

\* LineMap::reset_previous_marks: the lines that stay set are those with the
\* mark of the current cycle.
reset_previous_marks == used_lines_bitmap \ previous_lines

\* A preparation that leaves the mark value as it is.
prepare_for_collection_without_swap ==
    /\ OwnerIdle
    /\ ~cycle.collecting
    /\ previous_lines' = previous_lines
    /\ marked_objects_bitmap' = {}
    /\ cycle' = [collecting |-> TRUE, before |-> used_lines_bitmap,
                 marked |-> {}]
    /\ last' = Did("prepare_for_collection")
    /\ UNCHANGED <<free_pointer, end_pointer, finalizing, used_lines_bitmap,
                   finalize_bitmap, pending_finalization_bitmap, header,
                   memory, mutex, allocated, threadVars, drops, fresh, late>>
    /\ UNCHANGED exceptLine

\* Block::prepare_for_collection
prepare_for_collection ==
    /\ OwnerIdle
    /\ ~cycle.collecting
    /\ previous_lines' = swap_mark_value
    /\ marked_objects_bitmap' = {}
    /\ cycle' = [collecting |-> TRUE, before |-> used_lines_bitmap,
                 marked |-> {}]
    /\ last' = Did("prepare_for_collection")
    /\ UNCHANGED <<free_pointer, end_pointer, finalizing, used_lines_bitmap,
                   finalize_bitmap, pending_finalization_bitmap, header,
                   memory, mutex, allocated, threadVars, drops, fresh, late>>
    /\ UNCHANGED exceptLine

\* Block::update_line_map
update_line_map ==
    /\ OwnerIdle
    /\ cycle.collecting
    /\ used_lines_bitmap' = reset_previous_marks
    /\ previous_lines' = {}
    /\ cycle' = [cycle EXCEPT !.collecting = FALSE]
    /\ last' = Did("update_line_map")
    /\ UNCHANGED <<free_pointer, end_pointer, finalizing,
                   marked_objects_bitmap, finalize_bitmap,
                   pending_finalization_bitmap, header, memory, mutex,
                   allocated, threadVars, drops, fresh, late>>
    /\ UNCHANGED exceptLine

NextLineMap ==
    \/ WithinSlots(MaxSlots) /\ bump_allocate("None")
    \/ bump_allocate_write
    \/ \E slot \in DOMAIN memory : mark(slot)
    \/ \E range \in {r \in LineRanges : r \subseteq 1..MaxLine} :
            mark_lines(range)
    \/ prepare_for_collection
    \/ update_line_map

SpecLineMap == Init /\ [][NextLineMap]_vars

(***************************************************************************)
(* The trace of the mailbox collector (gc/mailbox_collector.rs, trace):    *)
(* messages are sent by the process itself and by another process, blocks  *)
(* are flagged as fragmented, and mailbox collections prepare, trace and   *)
(* count the objects they mark and move.                                   *)
(***************************************************************************)
\* Two leaves, the first of them local or permanent, and an array of both
\* with the first as its prototype.
InitMailboxTrace ==
    /\ Block_new
    /\ LocalAllocator_new
    /\ IdleScope
    /\ IdleContext
    /\ IdleTrace
    /\ IdleReclaim
    /\ IdleBarrier
    /\ process_heap = <<>>
    /\ Mailbox_new
    /\ Process_new
    /\ should_collect_mature = FALSE
    /\ contexts = <<>>
    /\ copy = NoCopy
    /\ bindings = <<>>
    /\ \E heap \in {"local", "permanent"} :
        objects = <<Object(heap, ObjectValue("Float", 1, <<>>, 0), 0, <<>>),
                    Object("local", ObjectValue("Float", 2, <<>>, 0), 0, <<>>),
                    Object("local", ObjectValue("Array", 0, <<1, 2>>, 0), 1, <<>>)>>

NextMailboxTrace ==
    \/ Process_running
    \/ \E sender \in {"self", "other"}, message \in {1, Root} :
          send_message(sender, message)
    \/ send_from_external_lock
    \/ send_from_external
    \/ \E heap \in {"local", "mailbox"} : block_mut_fragmented(heap)
    \/ request_collection("Mailbox")
    \/ perform
    \/ mailbox_collect_lock
    \/ mailbox_collect_prepare
    \/ mailbox_collect_trace
    \/ mailbox_collect_reclaim
    \/ update_mailbox_collection_statistics
    \/ mailbox_collect_unlock
    \/ schedule

SpecMailboxTrace == InitMailboxTrace /\ [][NextMailboxTrace]_vars

(***************************************************************************)
(* The index functions of the block (block.rs), called with a pointer to   *)
(* any of the object slots of the block.                                   *)
(***************************************************************************)
index_of_pointer(slot) ==
    /\ index_call' = [pointer |-> Address(slot),
                      object_index |-> object_index_of_pointer(slot),
                      line_index |-> line_index_of_pointer(slot),
                      block |-> OBJECT_BITMAP_MASK(Address(slot))]
    /\ UNCHANGED <<fragmented, trace_result>>
    /\ UNCHANGED <<blockVars, threadVars, historyVars>>
    /\ UNCHANGED <<allocatorVars, heapVars, bindingVars, scopeVars, barrierVars,
                   mailboxVars, collectorVars, contextVars, reclaimVars, lineVars>>

NextIndex ==
    \E slot \in start_address..(end_address - 1) : index_of_pointer(slot)

SpecIndex == Init /\ [][NextIndex]_vars

(***************************************************************************)
(* Properties of the finalization protocol, checked under Spec.            *)
(***************************************************************************)

\* Every slot of the last schedule has been dropped once.
AllDroppedOnce == \A s \in DOMAIN drops : drops[s] = 1

\* C1: finalize_pending called for the same scheduled block by several
\* threads, in any interleaving, drops each slot of the pending bitmap
\* exactly once in total: no slot is ever dropped twice, a caller that finds
\* finalizing = false after taking the mutex drops nothing and leaves the
\* bitmap alone, and when a call returns the pending bitmap is empty,
\* finalizing is false and every slot that was scheduled has been dropped
\* once.
C1_FinalizePendingDropsOnce ==
    [][/\ \A s \in DOMAIN drops' : drops'[s] <= 1
       /\ \A t \in Threads :
            /\ (pc[t] = "fp_check" /\ pc'[t] # "fp_check" /\ ~finalizing)
                   => /\ memory' = memory
                      /\ drops' = drops
                      /\ pending_finalization_bitmap'
                             = pending_finalization_bitmap
                      /\ pc'[t] \notin FinalizePendingLabels
            /\ (pc[t] \in FinalizePendingLabels
                    /\ pc'[t] \notin FinalizePendingLabels)
                   => /\ pending_finalization_bitmap' = {}
                      /\ ~finalizing'
                      /\ AllDroppedOnce']_vars

\* A worker has taken the mutex of a block with two scheduled slots and finds
\* finalizing = false: another thread has dropped both, once each.
C1_Witness ==
    \E w \in Workers :
        /\ pc[w] = "fp_check"
        /\ ~finalizing
        /\ Cardinality(DOMAIN drops) >= 2
        /\ AllDroppedOnce
        /\ \A s \in DOMAIN drops : memory[s].dropped

\* C2: prepare_finalization on a block that is not finalizing leaves in the
\* pending bitmap exactly the slots in 4..1023 whose finalize bit was set and
\* whose mark bit was not; the finalize bit of each of them is cleared and
\* the finalize bits of marked slots are kept; it returns true and sets
\* finalizing if and only if that set is not empty.
C2_PrepareFinalization ==
    [][(pc[Owner] = "pf_body" /\ pc'[Owner] # "pf_body" /\ ~call.saw)
           => LET moved == {i \in 4..1023 :
                               /\ i \in finalize_bitmap
                               /\ i \notin marked_objects_bitmap}
              IN  /\ pending_finalization_bitmap' = moved
                  /\ finalize_bitmap' = finalize_bitmap \ moved
                  /\ finalize_bitmap' \cap marked_objects_bitmap
                         = finalize_bitmap \cap marked_objects_bitmap
                  /\ last'.op = "prepare_finalization"
                  /\ last'.result = (moved # {})
                  /\ finalizing' = (moved # {})]_vars

\* prepare_finalization has run on a block that was not finalizing: a slot
\* is pending, the finalize bit of a marked slot is kept, and it returns
\* true.
C2_Witness ==
    /\ pc[Owner] = "pf_unlock"
    /\ call.op = "prepare_finalization"
    /\ ~call.saw
    /\ pending_finalization_bitmap # {}
    /\ finalize_bitmap \cap marked_objects_bitmap # {}
    /\ last.result
    /\ finalizing

\* C3: bump_allocate never writes into a slot whose pending bit is set: when
\* the block was finalizing as bump_allocate started, every pending slot has
\* been dropped, the bitmap is empty and finalizing is false before the
\* object is written, whatever the workers did in between.
C3_NoWriteIntoPendingSlot ==
    pc[Owner] = "ba_write"
        => /\ free_pointer \notin pending_finalization_bitmap
           /\ call.saw => /\ pending_finalization_bitmap = {}
                          /\ ~finalizing
                          /\ AllDroppedOnce

\* The owner is about to write into a slot that was pending when
\* bump_allocate started, with a worker about to take the mutex.
C3_Witness ==
    /\ pc[Owner] = "ba_write"
    /\ call.saw
    /\ free_pointer \in DOMAIN drops
    /\ memory[free_pointer].dropped
    /\ \E w \in Workers : pc[w] = "fp_lock"

\* C4: whenever no thread holds the mutex of the pending bitmap, finalizing
\* is true if and only if the pending bitmap is not empty; and a
\* prepare_finalization on a block that is still scheduled has drained the
\* earlier pending slots before it takes the mutex, and leaves the block
\* idle when it finds nothing new.
C4_FinalizingIffPending ==
    /\ mutex = Free => (finalizing <=> pending_finalization_bitmap # {})
    /\ (pc[Owner] \in {"pf_lock", "pf_body"} /\ call.saw)
           => /\ pending_finalization_bitmap = {}
              /\ ~finalizing
              /\ AllDroppedOnce
    /\ (pc[Owner] = "pf_unlock" /\ ~last.result)
           => /\ pending_finalization_bitmap = {}
              /\ ~finalizing

\* A second prepare_finalization on a scheduled block has drained the block
\* and found nothing new.
C4_Witness ==
    /\ pc[Owner] = "pf_unlock"
    /\ call.op = "prepare_finalization"
    /\ call.saw
    /\ ~last.result
    /\ \E s \in DOMAIN memory : memory[s].dropped
    /\ ~finalizing
    /\ pending_finalization_bitmap = {}

\* C5: when a block is dropped while it is scheduled, every slot of the
\* pending bitmap has been dropped, once, before the region is given back,
\* and none is dropped after.
C5_DropDrainsBeforeDealloc ==
    /\ pc[Owner] \in {"dealloc", "dropped"}
           => /\ pending_finalization_bitmap = {}
              /\ ~finalizing
              /\ AllDroppedOnce
    /\ late = {}

\* The region of a block that was scheduled when Drop began has been given
\* back.
C5_Witness ==
    /\ ~allocated
    /\ call.op = "drop"
    /\ call.saw
    /\ drops # <<>>
    /\ AllDroppedOnce

(***************************************************************************)
(* A destructor that panics, checked under SpecPanic.                      *)
(***************************************************************************)

\* C6: when the drop of a pending object panics during finalize_pending, the
\* block still ends idle, finalizing false and no pending bit left set, so
\* that no slot is dropped again by a later drain.
C6_PanicLeavesBlockIdle ==
    [][/\ (\E t \in Threads : finalize_pending_panic(t))
           => /\ ~finalizing'
              /\ pending_finalization_bitmap' = {}
       /\ \A s \in DOMAIN drops' : drops'[s] <= 1]_vars

(***************************************************************************)
(* Properties of hole finding, checked under SpecHole.                     *)
(***************************************************************************)

\* The lines of the slots between the free and the end pointer.
WindowLines ==
    {line_index_of_pointer(slot) : slot \in free_pointer..(end_pointer - 1)}

\* The line a search for a hole starts at: recycle starts at the first line,
\* find_available_hole at the line of the free pointer.
UnmarkedFrom(line) ==
    {j \in line..(LINES_PER_BLOCK - 1) : j \notin used_lines_bitmap}

\* C7: after recycle or find_available_hole the window between the free and
\* the end pointer covers only unmarked lines; when every line from the start
\* of the search to line 255 is marked, or the free pointer is at the end of
\* the block, the window is empty and is_available_for_allocation returns
\* false.
C7_WindowCoversUnmarkedLines ==
    [][/\ (recycle \/ find_available_hole)
           => WindowLines' \cap used_lines_bitmap' = {}
       /\ (recycle /\ UnmarkedFrom(LINE_START_SLOT) = {})
           => ~can_bump_allocate'
       /\ (find_available_hole
               /\ (\/ free_pointer = end_address
                   \/ UnmarkedFrom(line_index_of_pointer(free_pointer)) = {}))
           => ~can_bump_allocate'
       /\ (is_available_for_allocation /\ ~can_bump_allocate)
           => /\ WindowLines' \cap used_lines_bitmap' = {}
              /\ (\/ free_pointer = end_address
                  \/ UnmarkedFrom(line_index_of_pointer(free_pointer)) = {})
                     => (~can_bump_allocate' /\ ~last'.result)]_vars

\* The pointers a search from `line` has to leave when a line from there on
\* is unmarked: the first slot of the first unmarked line, and the first slot
\* of the first marked line after it or the end of the block.
HoleFrom(line) ==
    LET j == Min(UnmarkedFrom(line))
        after == {k \in (j + 1)..(LINES_PER_BLOCK - 1) :
                      k \in used_lines_bitmap}
    IN  [free |-> j * OBJECTS_PER_LINE,
         end |-> IF after = {} THEN 1024 ELSE Min(after) * OBJECTS_PER_LINE]

\* C8: find_available_hole_starting_at(i), for recycle with i = 1 and for
\* find_available_hole with i the line of the free pointer: when a line
\* j >= i is unmarked, the free pointer becomes the first slot of the
\* smallest such j and the end pointer the first slot of the smallest marked
\* line after j, or slot 1024 when there is none; both are line-aligned.
C8_HoleFromLine ==
    [][/\ (UnmarkedFrom(LINE_START_SLOT) # {} /\ recycle)
           => /\ free_pointer' = HoleFrom(LINE_START_SLOT).free
              /\ end_pointer' = HoleFrom(LINE_START_SLOT).end
              /\ free_pointer' % OBJECTS_PER_LINE = 0
              /\ end_pointer' % OBJECTS_PER_LINE = 0
       /\ (/\ free_pointer # end_address
           /\ UnmarkedFrom(line_index_of_pointer(free_pointer)) # {}
           /\ \/ find_available_hole
              \/ (is_available_for_allocation /\ ~can_bump_allocate))
           => LET i == line_index_of_pointer(free_pointer) IN
              /\ free_pointer' = HoleFrom(i).free
              /\ end_pointer' = HoleFrom(i).end
              /\ free_pointer' % OBJECTS_PER_LINE = 0
              /\ end_pointer' % OBJECTS_PER_LINE = 0]_vars

\* A search has left the hole of the one unmarked line between two marked
\* lines, and a search from the end of a hole has moved on to the next.
C8_Witness ==
    /\ 1 \in used_lines_bitmap
    /\ 2 \notin used_lines_bitmap
    /\ 3 \in used_lines_bitmap
    /\ free_pointer = 2 * OBJECTS_PER_LINE
    /\ end_pointer = 3 * OBJECTS_PER_LINE
    /\ last.op = "is_available_for_allocation"
    /\ last.result
    /\ start_address \in DOMAIN memory

(***************************************************************************)
(* Properties of allocation, checked under Spec.                           *)
(***************************************************************************)

\* C9: bump_allocate writes the object at the free pointer, returns the
\* pointer to that slot, moves the free pointer on by one slot, sets the
\* finalize bit of the slot if and only if the object is finalizable, and
\* changes no other finalize bit and no mark or line bit; after n
\* allocations into a fresh block the free pointer is start_address + n.
C9_BumpAllocate ==
    [][/\ (pc[Owner] = "ba_write" /\ pc'[Owner] # "ba_write")
           => /\ free_pointer \in DOMAIN memory'
              /\ memory'[free_pointer] =
                     [value |-> call.object, dropped |-> FALSE]
              /\ \A s \in DOMAIN memory :
                     s # free_pointer => memory'[s] = memory[s]
              /\ last'.op = "bump_allocate"
              /\ last'.pointer = free_pointer
              /\ free_pointer' = free_pointer + 1
              /\ finalize_bitmap' =
                     IF call.object = "Float"
                     THEN finalize_bitmap \cup {free_pointer}
                     ELSE finalize_bitmap
       /\ (call.op = "bump_allocate" /\ pc[Owner] # "ba_write")
           => finalize_bitmap' = finalize_bitmap
       /\ call.op = "bump_allocate"
           => /\ marked_objects_bitmap' = marked_objects_bitmap
              /\ used_lines_bitmap' = used_lines_bitmap
       /\ fresh' >= 0 => free_pointer' = start_address + fresh']_vars

\* A float and then None have been allocated into a fresh block: the finalize
\* bit of the first slot alone is set.
C9_Witness ==
    /\ last.op = "bump_allocate"
    /\ last.pointer = start_address + 1
    /\ fresh = 2
    /\ free_pointer = start_address + 2
    /\ memory[start_address].value = "Float"
    /\ memory[start_address + 1].value = "None"
    /\ finalize_bitmap = {start_address}

(***************************************************************************)
(* Properties of reset, checked under SpecBlock.                           *)
(***************************************************************************)

\* C10: reset, from any state, leaves the free pointer at start_address, the
\* end pointer at end_address, no bucket, fragmented false, one hole, and
\* empty used-line, marked-object and finalize bitmaps; the pending bitmap
\* and the finalizing flag are as they were, and no object is dropped.
C10_Reset ==
    [][(pc[Owner] = "idle" /\ last'.op = "reset")
           => /\ free_pointer' = start_address
              /\ end_pointer' = end_address
              /\ header'.bucket = NullBucket
              /\ header'.fragmented = FALSE
              /\ header'.holes = 1
              /\ used_lines_bitmap' = {}
              /\ marked_objects_bitmap' = {}
              /\ finalize_bitmap' = {}
              /\ pending_finalization_bitmap' = pending_finalization_bitmap
              /\ finalizing' = finalizing
              /\ memory' = memory
              /\ drops' = drops]_vars

\* reset has run on a scheduled block with two objects, one of them pending
\* and not dropped.
C10_Witness ==
    /\ last.op = "reset"
    /\ finalizing
    /\ pending_finalization_bitmap = {start_address}
    /\ Cardinality(DOMAIN memory) = 2
    /\ \A s \in DOMAIN memory : ~memory[s].dropped

(***************************************************************************)
(* Properties of hole counting, checked under SpecCount.                   *)
(***************************************************************************)

\* The lines at which a maximal run of unmarked lines begins, among the
\* lines 1..255.
RunStarts ==
    {j \in 1..(LINES_PER_BLOCK - 1) :
        /\ j \notin used_lines_bitmap
        /\ j = 1 \/ (j - 1) \in used_lines_bitmap}

\* C11: update_hole_count stores in the header, and returns, the number of
\* maximal runs of consecutive unmarked lines among the lines 1..255, a run
\* that reaches the end of the block included; the number is never more than
\* MAX_HOLES.
C11_UpdateHoleCount ==
    [][(pc[Owner] = "idle" /\ last'.op = "update_hole_count")
           => /\ last'.pointer = Cardinality(RunStarts)
              /\ header'.holes = Cardinality(RunStarts)
              /\ header'.holes <= MAX_HOLES
              /\ header'.bucket = header.bucket
              /\ header'.fragmented = header.fragmented
              /\ used_lines_bitmap' = used_lines_bitmap]_vars

\* The holes of a block whose even lines are marked have been counted: each
\* odd line is a hole, the last one reaching the end of the block.
C11_Witness ==
    /\ last.op = "update_hole_count"
    /\ used_lines_bitmap = EveryOtherLine(2)
    /\ last.pointer = MAX_HOLES
    /\ header.holes = MAX_HOLES

(***************************************************************************)
(* Properties of the local allocator, checked under SpecAllocator.         *)
(***************************************************************************)

\* C12: after LocalAllocator::new and any number of increment_young_ages
\* calls, the bucket at eden_index is the young bucket whose age is 0.
C12_EdenHasAgeZero ==
    allocation.pc = "idle" =>
        /\ young_generation[eden_index].age = 0
        /\ \A position \in 0..3 :
               young_generation[position].age = 0 => position = eden_index


\* C13: one call of increment_young_ages adds 1 to the age of every young
\* bucket whose age is not YOUNG_MAX_AGE; a bucket whose age is YOUNG_MAX_AGE
\* gets the age 0 and eden_index refers to it; the mature bucket and the block
\* lists of all the buckets stay as they are.
C13_IncrementYoungAges ==
    [][(/\ allocation'.op = "increment_young_ages"
        /\ young_generation' # young_generation)
       => /\ \A position \in 0..3 :
                 /\ young_generation[position].age # YOUNG_MAX_AGE
                        => young_generation'[position].age =
                               young_generation[position].age + 1
                 /\ young_generation[position].age = YOUNG_MAX_AGE
                        => /\ young_generation'[position].age = 0
                           /\ eden_index' = position
                 /\ young_generation'[position].blocks =
                        young_generation[position].blocks
          /\ mature_generation' = mature_generation
          /\ heap_blocks' = heap_blocks]_vars

\* increment_young_ages has reset the bucket at position 1, which holds no
\* block, and made it the eden bucket in place of the bucket holding a block.
C13_Witness ==
    /\ allocation.op = "increment_young_ages"
    /\ eden_index = 1
    /\ young_generation[1].age = 0
    /\ young_generation[0].age = 1
    /\ young_generation[0].blocks # <<>>


\* The operations that allocate into the eden bucket, and the bucket an
\* allocating operation has to use.
EdenOperations ==
    {"allocate_with_prototype", "allocate_without_prototype",
     "allocate_empty", "allocate_copy"}

BucketFor(op) == IF op \in EdenOperations THEN eden_space_mut ELSE MatureBucket

\* C14: allocate_empty, allocate_without_prototype, allocate_with_prototype
\* and allocate_copy place the object in a block owned by the current eden
\* bucket, allocate_mature in a block owned by the mature bucket; a block is
\* requested from the global allocator only when that bucket has no block
\* available, and the requested block is in the list of that same bucket
\* before the object is written into it.
C14_AllocationTarget ==
    [][/\ (/\ allocation'.pc = "idle"
           /\ allocation'.op \in EdenOperations \cup {"allocate_mature"}
           /\ heap_blocks' # heap_blocks)
          => /\ allocation'.block \in DOMAIN heap_blocks
             /\ heap_blocks' =
                    [heap_blocks EXCEPT ![allocation'.block].free = @ + 1]
             /\ heap_blocks[allocation'.block].free < end_address
             /\ heap_blocks[allocation'.block].bucket = BucketFor(allocation'.op)
             /\ \E position \in DOMAIN BucketOf(BucketFor(allocation'.op)).blocks :
                    BucketOf(BucketFor(allocation'.op)).blocks[position] =
                        allocation'.block
             /\ allocation.pc = "write" => allocation'.block = allocation.block
       /\ global_allocator' # global_allocator
          => /\ allocation.op \in EdenOperations \cup {"allocate_mature"}
             /\ first_available_block(BucketOf(BucketFor(allocation.op))) = 0
             /\ DOMAIN heap_blocks' = DOMAIN heap_blocks \cup {allocation'.block}
             /\ allocation'.block \notin DOMAIN heap_blocks]_vars

\* allocate_mature has requested the second block, added it to the mature
\* bucket and written its object into it, while the eden bucket has moved to
\* a young bucket without a block.
C14_Witness ==
    /\ allocation.pc = "idle"
    /\ allocation.op = "allocate_mature"
    /\ allocation.block = 2
    /\ mature_generation.blocks = <<2>>
    /\ heap_blocks[2] = [free |-> start_address + 1, bucket |-> MatureBucket]
    /\ heap_blocks[1].bucket # eden_space_mut


(***************************************************************************)
(* Properties of copy_object and move_object, checked under SpecCopy.      *)
(***************************************************************************)

\* The objects and bindings before and after a step.
Before == [objects |-> objects, bindings |-> bindings]
After == [objects |-> objects', bindings |-> bindings']

\* Structural equality of the object at left in one heap and the object at
\* right in another: the same permanent or null pointer, or objects with the
\* same value variant and scalar contents, arrays of the same length with
\* equal elements, equal binding chains, equal prototypes and equal attribute
\* keys and values.
RECURSIVE StructurallyEqual(_, _, _, _)
RECURSIVE BindingsEqual(_, _, _, _)
BindingsEqual(one, left, other, right) ==
    IF left = 0 \/ right = 0
    THEN left = right
    ELSE /\ Len(one.bindings[left].locals) = Len(other.bindings[right].locals)
         /\ \A local \in DOMAIN one.bindings[left].locals :
                StructurallyEqual(one, one.bindings[left].locals[local],
                                  other, other.bindings[right].locals[local])
         /\ BindingsEqual(one, one.bindings[left].parent,
                          other, other.bindings[right].parent)

StructurallyEqual(one, left, other, right) ==
    IF left = 0 \/ right = 0
    THEN left = right
    ELSE IF \/ one.objects[left].heap = "permanent"
            \/ other.objects[right].heap = "permanent"
    THEN left = right
    ELSE LET a == one.objects[left]
             b == other.objects[right]
         IN /\ a.value.kind = b.value.kind
            /\ a.value.data = b.value.data
            /\ Len(a.value.elements) = Len(b.value.elements)
            /\ \A element \in DOMAIN a.value.elements :
                   StructurallyEqual(one, a.value.elements[element],
                                     other, b.value.elements[element])
            /\ BindingsEqual(one, a.value.binding, other, b.value.binding)
            /\ StructurallyEqual(one, a.prototype, other, b.prototype)
            /\ Len(a.attributes) = Len(b.attributes)
            /\ a.attributes # <<>> =>
                   /\ Len(a.attributes[1]) = Len(b.attributes[1])
                   /\ \A pair \in DOMAIN a.attributes[1] :
                          /\ StructurallyEqual(one, a.attributes[1][pair][1],
                                               other, b.attributes[1][pair][1])
                          /\ StructurallyEqual(one, a.attributes[1][pair][2],
                                               other, b.attributes[1][pair][2])

\* A first call of copy_object or move_object returns in this step.
Returns(op) ==
    /\ copy.op = "none"
    /\ copy'.op = op
    /\ ~copy'.panicked

\* C15: during one copy_object or move_object call every object that is not
\* permanent and reachable from the source is visited exactly once, also when
\* it is reachable along two paths; after a move each field of the
\* destination carries the value its source field referenced before the move.
C15_VisitedExactlyOnce ==
    [][/\ (Returns("copy_object") \/ Returns("move_object"))
          => \A pointer \in Reachable(Before, copy'.source) :
                 objects[pointer].heap # "permanent"
                     => Cardinality({visit \in DOMAIN copy'.visits :
                                        copy'.visits[visit] = pointer}) = 1
       /\ Returns("move_object")
          => StructurallyEqual(Before, copy'.source, After, copy'.pointer)]_vars


\* C16: copy_object of an object O that is not permanent, holds no file and
\* is acyclic allocates, on the heap that copies, a new object distinct from
\* O and structurally equal to O, and leaves O and everything reachable from
\* O as it was; the copy of the copy is structurally equal to O.
C16_CopyIsStructurallyEqual ==
    [][/\ (Returns("copy_object") /\ objects[copy'.source].heap # "permanent")
          => /\ copy'.pointer \notin DOMAIN objects
             /\ copy'.pointer \in DOMAIN objects'
             /\ objects'[copy'.pointer].heap = OntoHeap(copy'.source)
             /\ StructurallyEqual(Before, copy'.source, After, copy'.pointer)
             /\ SubSeq(objects', 1, Len(objects)) = objects
             /\ SubSeq(bindings', 1, Len(bindings)) = bindings
       /\ (/\ copy.op = "copy_object"
           /\ copy'.op = "copy_object_back"
           /\ objects[copy.source].heap # "permanent")
          => /\ ~copy'.panicked
             /\ copy'.pointer \notin {copy.source, copy.pointer}
             /\ StructurallyEqual(Before, copy.source, After, copy'.pointer)
             /\ SubSeq(objects', 1, Len(objects)) = objects]_vars

\* A block with a prototype, whose binding and parent binding each hold a
\* local that is not permanent, has been copied and the copy copied back: the
\* second copy is a third object, structurally equal to the block.
C16_Witness ==
    /\ copy.op = "copy_object_back"
    /\ objects[Root].value.kind = "Block"
    /\ objects[Root].prototype = 1
    /\ bindings[1].locals = <<1>>
    /\ bindings[2].locals = <<2>>
    /\ objects[1].heap = "local"
    /\ objects[2].heap = "local"
    /\ Len(bindings) = 6
    /\ copy.pointer \notin {Root, copy.source}
    /\ objects[copy.pointer].value.binding = 6
    /\ StructurallyEqual(Before, Root, Before, copy.pointer)


\* C17: after move_object(O) for an O that is not permanent, the value of O
\* is None, O has no prototype and no attribute map and its finalize bit is
\* cleared; the returned object holds the former value of O, the moved
\* prototype and the moved attributes, and its finalize bit is set exactly
\* when its contents require a drop.
C17_MoveEmptiesSource ==
    [][(Returns("move_object") /\ objects[copy'.source].heap # "permanent")
       => LET source == objects[copy'.source]
              emptied == objects'[copy'.source]
              moved == objects'[copy'.pointer]
          IN /\ emptied.value = object_value_none
             /\ emptied.prototype = 0
             /\ emptied.attributes = <<>>
             /\ ~emptied.finalize
             /\ emptied.heap = source.heap
             /\ copy'.pointer \notin DOMAIN objects
             /\ moved.value.kind = source.value.kind
             /\ moved.value.data = source.value.data
             /\ moved.value.binding = source.value.binding
             /\ Len(moved.value.elements) = Len(source.value.elements)
             /\ (moved.prototype # 0) = (source.prototype # 0)
             /\ moved.prototype # 0 =>
                    \/ moved.prototype \notin DOMAIN objects
                    \/ /\ moved.prototype = source.prototype
                       /\ objects[source.prototype].heap = "permanent"
             /\ Len(moved.attributes) = Len(source.attributes)
             /\ source.attributes # <<>> =>
                    Len(moved.attributes[1]) = Len(source.attributes[1])
             /\ moved.finalize =
                    (moved.value.kind # "None" \/ moved.attributes # <<>>)]_vars

\* An object with the value None, a prototype and an attribute has been
\* moved: the source had its finalize bit set and has lost it, the returned
\* object has the prototype and the attribute and its finalize bit set.
C17_Witness ==
    /\ copy.op = "move_object"
    /\ copy.source = Root
    /\ objects[Root].value = object_value_none
    /\ objects[Root].prototype = 0
    /\ objects[Root].attributes = <<>>
    /\ ~objects[Root].finalize
    /\ objects[copy.pointer].value.kind = "None"
    /\ objects[copy.pointer].prototype # 0
    /\ objects[copy.pointer].attributes # <<>>
    /\ objects[copy.pointer].finalize
    /\ objects[objects[copy.pointer].prototype].value.kind = "File"


\* C18: after copy_object or move_object onto a heap H has returned p, every
\* object reachable from p through array elements, prototypes, attribute keys
\* and values and the locals of bindings and of their parents is allocated on
\* H or permanent.
C18_ResultOnTargetHeap ==
    (copy.op # "none" /\ ~copy.panicked)
    => \A pointer \in Reachable(Before, copy.pointer) :
           objects[pointer].heap \in {"permanent", copy.onto}

\* A block has been moved onto the mailbox heap whose binding chain holds a permanent local and a
\* local of the source heap, and whose prototype is the object of that local:
\* from the returned block the permanent object and three objects of the
\* mailbox heap are reachable.
C18_Witness ==
    /\ copy.op = "move_object"
    /\ copy.source = Root
    /\ copy.onto = "mailbox"
    /\ objects[copy.pointer].value.kind = "Block"
    /\ objects[1].heap = "permanent"
    /\ bindings[1].locals = <<1>>
    /\ objects[2].heap = "local"
    /\ bindings[2].locals # <<0>>
    /\ bindings[2].locals # <<2>>
    /\ objects[copy.pointer].prototype # 0
    /\ 1 \in Reachable(Before, copy.pointer)
    /\ Cardinality(Reachable(Before, copy.pointer)) = 4


\* C19: copy_object and move_object applied to a permanent pointer return
\* that same pointer, allocate nothing and modify nothing.
C19_PermanentUnchanged ==
    [][(/\ copy'.op # copy.op
        /\ objects[copy'.source].heap = "permanent")
       => /\ copy'.pointer = copy'.source
          /\ ~copy'.panicked
          /\ copy'.visits = <<>>
          /\ objects' = objects
          /\ bindings' = bindings
          /\ UNCHANGED allocatorVars]_vars

\* copy_object has been applied to a permanent object that holds a file: it
\* has returned the pointer without a panic, and the heap has three objects
\* as before.
C19_Witness ==
    /\ copy.op = "copy_object"
    /\ copy.pointer = copy.source
    /\ ~copy.panicked
    /\ objects[copy.source].heap = "permanent"
    /\ objects[copy.source].value.kind = "File"
    /\ objects[copy.source].finalize
    /\ Len(objects) = 3


\* The objects holding a file that a call on the pointer reaches: permanent
\* objects are returned as they are and not looked into.
FilesReached(pointer) ==
    {reached \in Reachable(Before, pointer) :
        /\ objects[reached].heap # "permanent"
        /\ objects[reached].value.kind = "File"}

\* C20: copy_object panics whenever it reaches an object holding a file, be
\* it the source or an array element, a prototype, an attribute or a binding
\* local, and only then; move_object of an object holding a file does not
\* fail and the returned object holds the file.
C20_FileIsNotCopied ==
    [][/\ (copy.op = "none" /\ copy'.op = "copy_object")
          => /\ copy'.panicked = (FilesReached(copy'.source) # {})
             /\ copy'.panicked => copy'.pointer = 0
       /\ copy'.op = "copy_object_back" => ~copy'.panicked
       /\ (copy'.op # copy.op /\ copy'.op \in {"move_object", "move_object_on"})
          => /\ ~copy'.panicked
             /\ copy'.pointer \in DOMAIN objects'
             /\ (/\ objects[copy'.source].heap # "permanent"
                 /\ objects[copy'.source].value.kind = "File")
                => /\ objects'[copy'.pointer].value = objects[copy'.source].value
                   /\ objects'[copy'.pointer].heap = copy'.onto
                   /\ objects'[copy'.source].value = object_value_none
                   /\ copy'.pointer # copy'.source]_vars

\* copy_object of a binding has panicked on the file that the local of the
\* parent binding refers to; the root itself holds no file.
C20_Witness ==
    /\ copy.op = "copy_object"
    /\ copy.source = Root
    /\ copy.panicked
    /\ objects[Root].value.kind = "Binding"
    /\ bindings[1].locals = <<1>>
    /\ objects[1].value.kind = "File"
    /\ objects[1].heap = "local"
    /\ copy.visits = <<Root, 1>>

(***************************************************************************)
(* Properties of the bindings, checked under SpecBinding.                  *)
(***************************************************************************)

\* The locals of a binding that are not null, by ascending index, and then
\* those of its parent, of the parent of its parent and so on to the root.
RECURSIVE NonNullLocals(_)
NonNullLocals(binding) ==
    IF binding = 0
    THEN <<>>
    ELSE SelectSeq([slot \in 1..Len(bindings[binding].locals) |-> <<binding, slot - 1>>],
                   LAMBDA item : bindings[binding].locals[item[2] + 1] # 0)
         \o NonNullLocals(bindings[binding].parent)

\* C21: the pointer iterator of a binding, and so push_pointers, yields each
\* local that is not null of the binding and of each of its ancestors
\* exactly once and no null local, the binding's own locals first by
\* ascending index, then its parent's and so on to the root of the chain,
\* and then it ends with None.
C21_IteratorYieldsLocalsInOrder ==
    iterator.first # 0 =>
        LET expected == NonNullLocals(iterator.first)
        IN  /\ Len(iterator.yielded) <= Len(expected)
            /\ iterator.yielded = SubSeq(expected, 1, Len(iterator.yielded))
            /\ iterator.finished => iterator.yielded = expected

\* The iterator of the third binding of a chain has ended after it yielded
\* locals of two bindings and passed a null local.
C21_Witness ==
    /\ iterator.finished
    /\ iterator.first = 3
    /\ \E one \in DOMAIN iterator.yielded, other \in DOMAIN iterator.yielded :
        iterator.yielded[one][1] # iterator.yielded[other][1]
    /\ \E binding \in DOMAIN bindings : \E slot \in DOMAIN bindings[binding].locals :
        bindings[binding].locals[slot] = 0

\* The chain of the binding clone in the heap after is a chain of new
\* bindings with the shape of the chain of the binding source in the heap
\* before: as many bindings, as many locals in each, a null local for a null
\* local and for any other local the permanent pointer itself or a new object
\* of the heap onto that is structurally equal to the one the local held.
RECURSIVE ClonedChain(_, _, _)
ClonedChain(source, clone, onto) ==
    IF source = 0 \/ clone = 0
    THEN source = clone
    ELSE /\ clone \notin DOMAIN bindings
         /\ Len(bindings'[clone].locals) = Len(bindings[source].locals)
         /\ \A local \in DOMAIN bindings[source].locals :
                LET old == bindings[source].locals[local]
                    new == bindings'[clone].locals[local]
                IN  IF old = 0
                    THEN new = 0
                    ELSE IF objects[old].heap = "permanent"
                    THEN new = old
                    ELSE /\ new \notin DOMAIN objects
                         /\ new \in DOMAIN objects'
                         /\ objects'[new].heap = onto
                         /\ StructurallyEqual(Before, old, After, new)
         /\ ClonedChain(bindings[source].parent, bindings'[clone].parent, onto)

\* C22: clone_to(H) of a binding returns a new chain of bindings of the same
\* depth in which each frame has as many locals as its source frame, each
\* local that is not null is the result of copy_object on H of the source
\* local and each null local is null; the root of the new chain has no
\* parent, and the source chain and its objects are unchanged.
C22_CloneToCopiesChain ==
    [][Returns("clone_to")
       => /\ copy'.pointer # 0
          /\ ClonedChain(copy'.source, copy'.pointer, copy'.onto)
          /\ SubSeq(bindings', 1, Len(bindings)) = bindings
          /\ SubSeq(objects', 1, Len(objects)) = objects]_vars

\* The third binding of a chain has been cloned: the clone is a chain of
\* three new bindings whose root has no parent, with a null local where the
\* source has one and a new object where the source has a local object.
C22_Witness ==
    /\ copy.op = "clone_to"
    /\ ~copy.panicked
    /\ copy.source = 3
    /\ Len(bindings) = 6
    /\ bindings[bindings[bindings[copy.pointer].parent].parent].parent = 0
    /\ bindings[3].locals = <<0>>
    /\ bindings[copy.pointer].locals = <<0>>
    /\ bindings[2].locals = <<2>>
    /\ bindings[bindings[copy.pointer].parent].locals # <<2>>
    /\ bindings[1].locals # <<>>

\* C23: move_pointers_to(H) of a binding creates no new frame; it replaces in
\* place each local that is not null, of every ancestor and then of the
\* binding itself, by the pointer that move_object of H returned for it and
\* leaves the null locals null; every original object is left with the value
\* None, and each local then reads the value its original object held.
C23_MovePointersInPlace ==
    [][Returns("move_pointers_to")
       => /\ Len(bindings') = Len(bindings)
          /\ \A binding \in DOMAIN bindings :
                /\ bindings'[binding].parent = bindings[binding].parent
                /\ Len(bindings'[binding].locals) = Len(bindings[binding].locals)
                /\ binding > copy'.source => bindings'[binding] = bindings[binding]
                /\ binding <= copy'.source =>
                    \A local \in DOMAIN bindings[binding].locals :
                        LET old == bindings[binding].locals[local]
                            new == bindings'[binding].locals[local]
                        IN  IF old = 0
                            THEN new = 0
                            ELSE IF objects[old].heap = "permanent"
                            THEN new = old
                            ELSE /\ new \notin DOMAIN objects
                                 /\ objects'[new].heap = copy'.onto
                                 /\ objects'[old].value = object_value_none
                                 /\ StructurallyEqual(Before, old, After, new)]_vars

(***************************************************************************)
(* Properties of the global scope, checked under SpecScope.                *)
(***************************************************************************)

\* C24: GlobalScope.set(i, v) with a v that is not permanent panics on every
\* call, before the scope is modified or resized; so after any sequence of
\* set calls every variable of a global scope that is not null is a
\* permanent pointer.
C24_OnlyPermanentInScope ==
    [][/\ (scope_call'.op = "set" /\ ~ObjectPointer_is_permanent(scope_call'.value))
          => /\ scope_call'.panicked
             /\ global_scope' = global_scope
       /\ \A slot \in DOMAIN global_scope' :
            global_scope'[slot] # ObjectPointer_null
                => ObjectPointer_is_permanent(global_scope'[slot])]_vars

\* A set with a pointer to an object of a local heap and an index beyond the
\* variables has panicked, after a set beyond the first 32 variables with a
\* permanent pointer had grown the scope.
C24_Witness ==
    /\ scope_call.op = "set"
    /\ scope_call.panicked
    /\ scope_call.value = ObjectPointer("regular", 1)
    /\ scope_call.index = Len(global_scope)
    /\ Len(global_scope) = 33
    /\ global_scope[33] = ObjectPointer("permanent", 1)
    /\ global_scope[1] = ObjectPointer_integer(5)

(***************************************************************************)
(* Properties of the write barrier, checked under SpecBarrier.             *)
(***************************************************************************)

\* C25: write_barrier(written_to, written) adds written_to to the remembered
\* set of the process if and only if written_to is mature and written is
\* young, a tagged integer being neither, and does nothing otherwise; so
\* after any sequence of stores, each followed by its barrier, every mature
\* object that holds a pointer to a young object is in the remembered set.
C25_BarrierRemembersMatureToYoung ==
    [][/\ (barrier # NoBarrier /\ barrier' = NoBarrier)
          => /\ remembered_set' =
                    IF /\ ObjectPointer_is_mature(barrier.written_to)
                       /\ ObjectPointer_is_young(barrier.written)
                    THEN remembered_set \cup {barrier.written_to}
                    ELSE remembered_set
             /\ barrier.written.tag = "integer" => remembered_set' = remembered_set
             /\ process_heap' = process_heap
       /\ barrier' = NoBarrier => MatureToYoung' \subseteq remembered_set']_vars

\* The barrier has run after the store of a pointer to the young object 2
\* into the mature object 1, which is now the one remembered object.
C25_Witness ==
    /\ barrier = NoBarrier
    /\ Len(process_heap) = 2
    /\ ObjectPointer("regular", 1) \in MatureToYoung
    /\ remembered_set = {ObjectPointer("regular", 1)}
    /\ process_heap[1].fields[1] = ObjectPointer("regular", 2)

(***************************************************************************)
(* Properties of the mailbox, checked under SpecMailbox.                   *)
(***************************************************************************)

\* receive_message returns a message in this step: one the process sent to
\* itself, or one of another process.
Receives(should_copy) ==
    /\ received'.op = "receive_message"
    /\ received'.pointer # 0
    /\ received'.should_copy = should_copy
    /\ Len(mailbox'.internal) + Len(mailbox'.external)
        < Len(mailbox.internal) + Len(mailbox.external)

\* The message that receive_message returns in this step is a young object of
\* the local heap with the value, the prototype and the attributes of the
\* message that was sent, and its cell of the mailbox heap is left empty.
MovedOutOfMailbox ==
    /\ received'.pointer \notin DOMAIN objects
    /\ received'.pointer \in DOMAIN objects'
    /\ objects'[received'.pointer].heap = "local"
    /\ received'.bucket.generation = "young"
    /\ StructurallyEqual(Before, received'.message, After, received'.pointer)
    /\ objects[received'.message] = objects'[received'.message]
    /\ objects[received'.cell].heap = "mailbox"
    /\ objects'[received'.cell].heap = "mailbox"
    /\ objects'[received'.cell].value = object_value_none
    /\ ~objects'[received'.cell].finalize

\* The message that receive_message returns in this step is the pointer that
\* was sent, and no object has changed.
ReturnedAsSent ==
    /\ received'.pointer = received'.message
    /\ received'.cell = received'.message
    /\ objects' = objects

\* C26: every message that send_from_external placed in the mailbox of a
\* process and that receive_message returns is returned as a young object of
\* the local heap of the receiver, not of the mailbox heap, that carries the
\* value, the prototype and the attributes of the message, and the cell of
\* the mailbox heap it came from is left with the value None and not
\* finalizable; a message the process sent to itself is returned as the
\* pointer that was sent, without a move.
C26_ReceivedIsYoungLocal ==
    [][/\ Receives(TRUE) => MovedOutOfMailbox
       /\ Receives(FALSE) => ReturnedAsSent]_vars

\* C26, amended: the first half holds for the messages that are not
\* permanent; a permanent message of another process is returned as the
\* pointer that was sent, like a message the process sent to itself.
C26_ReceivedIsYoungLocalUnlessPermanent ==
    [][/\ (Receives(TRUE) /\ objects[received'.message].heap # "permanent")
          => MovedOutOfMailbox
       /\ (Receives(TRUE) /\ objects[received'.message].heap = "permanent")
          => ReturnedAsSent
       /\ Receives(FALSE) => ReturnedAsSent]_vars

\* A message of another process with a prototype and an attribute had been
\* sent before the process sent the same object to itself; both have been
\* received, the second one as a new object of the local heap.
C26_Witness ==
    /\ received.op = "receive_message"
    /\ received.should_copy
    /\ mailbox = [internal |-> <<>>, external |-> <<>>, sent |-> 2]
    /\ received.message = Root
    /\ received.pointer > received.cell
    /\ objects[received.pointer].heap = "local"
    /\ objects[received.pointer].prototype # 0
    /\ objects[received.pointer].attributes # <<>>
    /\ objects[received.pointer].value.kind = "Float"
    /\ objects[received.cell].value.kind = "None"
    /\ objects[received.cell].heap = "mailbox"
    /\ objects[Root].value.kind = "Float"

(***************************************************************************)
(* Properties of the collectors, checked under SpecCollector.              *)
(***************************************************************************)

\* The steps of a mailbox collection from prepare_for_collection to the end
\* of reclaim_blocks.
Collecting ==
    /\ collector.collection_type = "Mailbox"
    /\ collector.pc \in {"prepare", "trace", "reclaim"}

\* C27: a mailbox collection holds the write lock of the mailbox from before
\* prepare_for_collection until after reclaim_blocks without interruption,
\* so that no send of another process takes effect on the mailbox heap
\* between the start of prepare and the end of reclaim; a send attempted
\* during the collection takes effect only after the lock is released.
C27_MailboxLockedWhileCollected ==
    [][/\ Collecting => write_lock = "collector"
       /\ Collecting' => write_lock' = "collector"
       /\ (Collecting \/ write_lock = "collector")
          => /\ mailbox'.external = mailbox.external
             /\ objects' = objects
             /\ sending # 0 => sending' = sending]_vars

\* Another process is waiting to send a message while the collector, which
\* holds the write lock, traces the mailbox that holds an earlier message.
C27_Witness ==
    /\ Collecting
    /\ collector.pc = "trace"
    /\ write_lock = "collector"
    /\ sending # 0
    /\ Len(mailbox.external) = 1

\* C28: every collection that is performed ends by handing the process to
\* the scheduler exactly once, after the reclamation and the statistics are
\* done and, for a mailbox collection, after the write lock has been
\* released; so a process suspended for a collection is eventually scheduled
\* again, and a collection that was dispatched is never abandoned.
C28_CollectionEndsByScheduling ==
    /\ [][/\ (pool' > pool) <=> (request # NoRequest /\ request' = NoRequest)
          /\ pool' > pool
             => /\ pool' = pool + 1
                /\ collector.reclaimed
                /\ collector.counted
                /\ write_lock # "collector"
                /\ status = "SuspendForGc"
                /\ status' = "Scheduled"
          /\ request # NoRequest => request' \in {request, NoRequest}]_vars
    /\ (status = "SuspendForGc") ~> (status = "Scheduled")

\* A heap collection and a mailbox collection have been performed, and the
\* process is once in the queue of the scheduler.
C28_Witness ==
    /\ status = "Scheduled"
    /\ pool = 1
    /\ request = NoRequest
    /\ collector.pc = "idle"
    /\ collector.collection_type = "Mailbox"
    /\ statistics.mailbox_collections = 1
    /\ statistics.young_collections = 1
    /\ write_lock = "sender"

\* C30: a Heap request is a full collection if and only if
\* should_collect_mature_generation of the process holds when the request is
\* created, and a young collection otherwise; a Mailbox request always has
\* the mailbox kind; perform runs the heap collector for a Heap request and
\* the mailbox collector for a Mailbox request, and the kind stays as it was
\* at the creation.
C30_RequestKindFixedAtCreation ==
    [][/\ (request = NoRequest /\ request' # NoRequest)
          => /\ request'.collection_type \in {"Heap", "Mailbox"}
             /\ request'.collection_type = "Heap"
                => /\ should_collect_mature => request'.profile = "full"
                   /\ ~should_collect_mature => request'.profile = "young"
             /\ request'.collection_type = "Mailbox"
                => request'.profile = "mailbox"
       /\ (request # NoRequest /\ request' # NoRequest) => request' = request
       /\ collector'.pc # "idle"
          => /\ collector'.collection_type = request'.collection_type
             /\ collector'.mature = (request'.profile = "full")
       /\ marked'.heap # marked.heap => request.collection_type = "Heap"
       /\ marked'.mailbox # marked.mailbox => request.collection_type = "Mailbox"
       /\ write_lock' = "collector" => request.collection_type = "Mailbox"
       /\ statistics'.mailbox_collections # statistics.mailbox_collections
          => request.profile = "mailbox"
       /\ statistics'.young_collections # statistics.young_collections
          => request.profile = "young"
       /\ statistics'.mature_collections # statistics.mature_collections
          => request.profile = "full"]_vars

\* A full collection, requested when the allocator asked for a collection of
\* the mature generation, is about to end: the allocator no longer asks for
\* one, and the request still is a full heap collection.
C30_Witness ==
    /\ request = [collection_type |-> "Heap", profile |-> "full"]
    /\ collector.pc = "schedule"
    /\ collector.mature
    /\ ~should_collect_mature
    /\ statistics.mature_collections = 1

(***************************************************************************)
(* Properties of the heap collector, checked under SpecHeapCollector.      *)
(***************************************************************************)

\* The objects of the process heap that are reachable from a set of pointers.
RECURSIVE HeapReachable(_)
HeapReachable(pointers) ==
    LET objects_found == {pointer \in pointers :
                             /\ pointer.tag = "regular"
                             /\ pointer.address \in DOMAIN process_heap}
        further == objects_found
                   \cup {pointer \in UNION {HeapFields(found) : found \in objects_found} :
                            /\ pointer.tag = "regular"
                            /\ pointer.address \in DOMAIN process_heap}
    IN  IF further = pointers THEN pointers ELSE HeapReachable(further)

\* C29: after a heap collection request has been performed for a process,
\* every object of its heap that is reachable from its roots, the registers
\* and the binding locals of every execution context of its chain, is
\* marked; no reachable young object is left unmarked.
C29_ReachableIsMarked ==
    (/\ collector.collection_type = "Heap"
     /\ collector.pc = "idle"
     /\ status = "Scheduled")
    => \A pointer \in HeapReachable(context_pointers) :
           pointer.address \in marked.heap

\* A young collection has been performed for a process whose register holds
\* a mature object that points to a young object: both are marked.
C29_Witness ==
    /\ collector.collection_type = "Heap"
    /\ collector.pc = "idle"
    /\ ~collector.mature
    /\ status = "Scheduled"
    /\ statistics.young_collections = 1
    /\ contexts[1].registers = <<ObjectPointer("regular", 1)>>
    /\ process_heap[1] = HeapObject("mature", <<ObjectPointer("regular", 2)>>)
    /\ process_heap[2].generation = "young"
    /\ marked.heap = {1, 2}

(***************************************************************************)
(* Properties of the execution contexts, checked under SpecContext.        *)
(***************************************************************************)

\* C31: when the suspension timeout of a process expires while its status is
\* WaitingForMessage, the status becomes Scheduled and the instruction index
\* of the current context, and of no other context, grows by exactly one;
\* when it expires in any other status no instruction index changes.
C31_TimeoutSkipsTheReceive ==
    [][context_call'.timeouts > context_call.timeouts =>
        IF status = "WaitingForMessage"
        THEN /\ status' = "Scheduled"
             /\ Len(local_data'.context) = Len(local_data.context)
             /\ local_data'.context[1].id = local_data.context[1].id
             /\ local_data'.context[1].instruction_index =
                    local_data.context[1].instruction_index + 1
             /\ Tail(local_data'.context) = Tail(local_data.context)
        ELSE local_data' = local_data]_vars

\* The timeout has expired for a process that was waiting for a message in a
\* context with a parent: the process is scheduled, past the receive.
C31_Witness ==
    /\ context_call.op = "wakeup_after_suspension_timeout"
    /\ context_call.returned
    /\ status = "Scheduled"
    /\ Len(local_data.context) = 2
    /\ local_data.context[1].instruction_index = 2
    /\ local_data.context[2].instruction_index = 1

(***************************************************************************)
(* Properties of the window of the block, checked under SpecWindow.        *)
(***************************************************************************)

\* C32: after any sequence of Block::new, bump_allocate into a block that is
\* available for allocation, find_available_hole, recycle and reset,
\* start_address <= free_pointer <= end_pointer <= end_address, and every
\* pointer bump_allocate returns is a slot 4..1023 of the block, never in
\* the header line and never past the end of the block.
C32_WindowWithinBlock ==
    /\ start_address <= free_pointer
    /\ free_pointer <= end_pointer
    /\ end_pointer <= end_address
    /\ last.op = "bump_allocate" =>
        /\ last.pointer \in OBJECT_START_SLOT..(OBJECTS_PER_BLOCK - 1)
        /\ line_index_of_pointer(last.pointer) \in 1..(LINES_PER_BLOCK - 1)
    /\ \A slot \in DOMAIN memory :
           slot \in OBJECT_START_SLOT..(OBJECTS_PER_BLOCK - 1)

\* An object was allocated into a hole that lies between marked lines and
\* was found after objects were allocated into the new block.
C32_Witness ==
    /\ last.op = "bump_allocate"
    /\ last.pointer = 12
    /\ free_pointer = 13
    /\ end_pointer = 4 * (LINES_PER_BLOCK - 1)
    /\ {1, 2, LINES_PER_BLOCK - 1} \subseteq used_lines_bitmap
    /\ 4 \in DOMAIN memory

(***************************************************************************)
(* Properties of the ages of the young buckets, checked under              *)
(* SpecAllocator.                                                          *)
(***************************************************************************)

\* C33: after LocalAllocator::new and after any number of calls of
\* increment_young_ages, the ages of the four young buckets are pairwise
\* distinct, each is in -3..3, and exactly one young bucket has the age 0.
C33_YoungAgesDistinct ==
    /\ \A first \in 0..3, second \in 0..3 :
           first # second =>
               young_generation[first].age # young_generation[second].age
    /\ \A position \in 0..3 :
           young_generation[position].age \in (-YOUNG_MAX_AGE)..YOUNG_MAX_AGE
    /\ Cardinality({position \in 0..3 :
                       young_generation[position].age = 0}) = 1

\* Five calls of increment_young_ages after LocalAllocator::new: the first
\* bucket was reset by the fourth call and the second by the fifth.
C33_Witness ==
    /\ allocation.op = "increment_young_ages"
    /\ young_generation[0].age = 1
    /\ young_generation[1].age = 0
    /\ young_generation[2].age = 3
    /\ young_generation[3].age = 2
    /\ eden_index = 1

(***************************************************************************)
(* Properties of reclaim_and_finalize, checked under SpecReclaim.          *)
(***************************************************************************)

\* The blocks of a list, as a set.
Listed(blocks) == {blocks[position] : position \in DOMAIN blocks}

\* reclaim_and_finalize has returned.
Reclaimed == reclaim.pc = "done"

\* C34: reclaim_and_finalize takes every block out of the young buckets,
\* the mature bucket and the mailbox bucket; every slot of a block whose
\* finalize bit was set, marked or not, is put into the pending bitmap of
\* the block (from where only its finalization takes it), the block is
\* reset, each block is scheduled on the finalizer pool once and all of
\* them are given to the global allocator: afterwards no bucket of the
\* process has a block and each block is with the global allocator only.
C34_ReclaimAndFinalize ==
    /\ [](Reclaimed =>
            /\ \A position \in 0..3 : young_generation[position].blocks = <<>>
            /\ mature_generation.blocks = <<>>
            /\ mailbox_allocator.blocks = <<>>
            /\ reclaim.blocks = <<>>
            /\ Listed(reclaim.returned) = reclaim.owned
            /\ Len(reclaim.returned) = Cardinality(reclaim.owned)
            /\ Listed(reclaim.finalizer_pool) = reclaim.owned
            /\ Len(reclaim.finalizer_pool) = Cardinality(reclaim.owned)
            /\ \A block \in reclaim.owned :
                   heap_blocks[block] =
                       [free |-> start_address, bucket |-> NoBucket]
            /\ free_pointer = start_address
            /\ end_pointer = end_address
            /\ used_lines_bitmap = {}
            /\ marked_objects_bitmap = {}
            /\ finalize_bitmap = {}
            /\ header = BlockHeader_new
            /\ \A slot \in reclaim.finalizable :
                   \/ slot \in pending_finalization_bitmap
                   \/ memory[slot].dropped)
    /\ [][(reclaim.pc = "loop" /\ pc[Owner] = "pf_body"
                /\ pc'[Owner] = "pf_unlock") =>
            /\ reclaim.finalizable \subseteq pending_finalization_bitmap'
            /\ finalize_bitmap' = {}]_vars

\* The three blocks of a process, one of each kind of bucket, have been
\* reclaimed; two floats of the first block, one of them marked by the last
\* collection, wait for their finalization.
C34_Witness ==
    /\ Reclaimed
    /\ reclaim.returned = <<1, 2, 3>>
    /\ reclaim.finalizer_pool = <<1, 2, 3>>
    /\ reclaim.finalizable = {4, 5}
    /\ pending_finalization_bitmap = {4, 5}
    /\ finalizing
    /\ ~memory[4].dropped
    /\ ~memory[5].dropped

(***************************************************************************)
(* Properties of the line marks, checked under SpecLineMap.                *)
(***************************************************************************)

\* C35: the line marks rotate across cycles: prepare_for_collection clears
\* every object mark of the block and leaves every line that was set, by
\* the previous cycle, reading as set; the update_line_map that follows
\* leaves a line reading as set if and only if it was marked again during
\* the cycle.
C35_LineMarksRotate ==
    [][/\ (~cycle.collecting /\ cycle'.collecting) =>
            /\ marked_objects_bitmap' = {}
            /\ used_lines_bitmap' = used_lines_bitmap
       /\ (cycle.collecting /\ ~cycle'.collecting) =>
            /\ used_lines_bitmap' \cap (cycle.before \ cycle.marked) = {}
            /\ cycle.marked \subseteq used_lines_bitmap'
            /\ used_lines_bitmap' = cycle.marked]_vars

\* A cycle has ended in which, of the two lines marked by the cycle before,
\* the first was marked again and the second was not.
C35_Witness ==
    /\ last.op = "update_line_map"
    /\ cycle.before = {1, 2}
    /\ cycle.marked = {1}
    /\ used_lines_bitmap = {1}
    /\ marked_objects_bitmap # {}


\* C36: the trace of a mailbox collection begins with the internal and the
\* external pointers of the mailbox and with nothing else, and it is the
\* moving trace exactly when prepare_for_collection returned true; every
\* object reachable from the messages is marked and counted once in marked;
\* evacuated counts the objects moved out of fragmented blocks, none when
\* the trace does not move or no block is fragmented; promoted is 0.
C36_MailboxTrace ==
    [][(/\ collector.collection_type = "Mailbox"
        /\ collector.pc = "trace"
        /\ collector'.pc = "reclaim")
       => LET reached == Traced(mailbox_pointers)
              in_fragmented == {pointer \in reached :
                                   objects[pointer].heap \in fragmented}
          IN  /\ {trace_result'.roots[root] : root \in DOMAIN trace_result'.roots}
                 = mailbox_pointers
              /\ Len(trace_result'.roots)
                 = Len(mailbox.internal) + Len(mailbox.external)
              /\ trace_result'.moving = trace_result.move_objects
              /\ marked'.mailbox = reached
              /\ trace_result'.marked = Cardinality(reached)
              /\ trace_result'.moved
                 = (IF trace_result'.moving THEN in_fragmented ELSE {})
              /\ trace_result'.evacuated = Cardinality(trace_result'.moved)
              /\ (fragmented = {} => trace_result'.evacuated = 0)
              /\ trace_result'.promoted = 0]_vars

\* A moving trace of a mailbox with an internal and an external message has
\* moved some of the objects it marked and left others where they were.
C36_Witness ==
    /\ collector.collection_type = "Mailbox"
    /\ collector.pc = "reclaim"
    /\ trace_result.moving
    /\ mailbox.internal # <<>>
    /\ mailbox.external # <<>>
    /\ trace_result.evacuated >= 1
    /\ trace_result.marked > trace_result.evacuated


\* C37: find_parent(depth) of a binding is the binding that depth + 1 parent
\* links lead to, so find_parent(0) is the parent, and None when the chain
\* of parents ends before that; the call leaves the bindings as they were.
C37_FindParent ==
    /\ [](found_parent.binding # 0 =>
            LET links == found_parent.depth + 1
                paths == {path \in [0..links -> DOMAIN bindings] :
                             /\ path[0] = found_parent.binding
                             /\ \A link \in 1..links :
                                   bindings[path[link - 1]].parent = path[link]}
            IN  /\ found_parent.parent = <<>> <=> paths = {}
                /\ \A path \in paths : found_parent.parent = <<path[links]>>
                /\ found_parent.depth = 0
                   => found_parent.parent = Binding_parent(found_parent.binding))
    /\ [][found_parent' # found_parent => bindings' = bindings]_vars

\* find_parent(1) of the third binding of a chain of three found the first
\* one, which has no parent.
C37_Witness ==
    /\ Len(bindings) = 3
    /\ found_parent = [binding |-> 3, depth |-> 1, parent |-> <<1>>]
    /\ bindings[1].parent = 0


\* find_parent(2) of the third binding of a chain of three found none.
C37_WitnessNone ==
    /\ Len(bindings) = 3
    /\ found_parent = [binding |-> 3, depth |-> 2, parent |-> <<>>]


\* C38: a global scope has 32 variables at first, all null; get(i) panics
\* exactly when i is not below the number of variables, and returns the
\* variable at i otherwise; a set(i, v) that does not panic makes the number
\* of variables the larger of what it was and i + 1, stores v at i, fills
\* the variables it adds below i with null and changes no other variable.
\* So a get below the length returns the last value set at its index, or
\* null when none was.
C38_GetAndSet ==
    /\ [](Len(global_scope) >= 32)
    /\ [](scope_call.op = "none"
            => /\ Len(global_scope) = 32
               /\ \A slot \in DOMAIN global_scope :
                     global_scope[slot] = ObjectPointer_null)
    /\ [][/\ scope_call'.op = "get"
             => /\ scope_call'.panicked <=> scope_call'.index >= Len(global_scope)
                /\ ~scope_call'.panicked
                   => scope_call'.value = global_scope[scope_call'.index + 1]
                /\ global_scope' = global_scope
          /\ (scope_call'.op = "set" /\ ~scope_call'.panicked)
             => /\ Len(global_scope')
                   = Max({Len(global_scope), scope_call'.index + 1})
                /\ global_scope'[scope_call'.index + 1] = scope_call'.value
                /\ \A slot \in DOMAIN global_scope' \ {scope_call'.index + 1} :
                      global_scope'[slot] = IF slot <= Len(global_scope)
                                            THEN global_scope[slot]
                                            ELSE ObjectPointer_null]_vars

\* A get of the variable 33 has panicked in a scope that a set of the
\* variable 32 had grown to 33 variables.
C38_Witness ==
    /\ scope_call.op = "get"
    /\ scope_call.panicked
    /\ scope_call.index = 33
    /\ Len(global_scope) = 33
    /\ global_scope[33] = ObjectPointer("permanent", 1)
    /\ global_scope[32] = ObjectPointer_null


(***************************************************************************)
(* Properties of the execution contexts, checked under SpecContext.        *)
(***************************************************************************)

\* C39: a process always has a current execution context; push_context
\* makes the new context the current one, with the context that was current
\* as its parent; pop_context of a context with a parent makes the parent
\* the current context and returns false; pop_context of the bottom context
\* returns true and leaves it where it is; so a pop_context right after a
\* push_context brings back the contexts of before the push, and there are
\* as many contexts as 1 + the pushes - the pops that returned false.
C39_ContextStack ==
    /\ [](/\ Len(local_data.context) >= 1
          /\ Len(local_data.context)
             = 1 + context_call.pushes - context_call.pops)
    /\ [][context_call'.pushes # context_call.pushes
            => /\ Len(local_data'.context) = Len(local_data.context) + 1
               /\ Tail(local_data'.context) = local_data.context
               /\ \A parent \in DOMAIN local_data.context :
                     local_data'.context[1].id # local_data.context[parent].id]_vars
    /\ [][(context_call'.op = "pop_context" /\ context_call' # context_call)
            => IF Len(local_data.context) > 1
               THEN /\ local_data'.context = Tail(local_data.context)
                    /\ ~context_call'.returned
                    /\ context_call'.pops = context_call.pops + 1
               ELSE /\ local_data'.context = local_data.context
                    /\ context_call'.returned
                    /\ context_call'.pops = context_call.pops]_vars
    /\ [][(context_call.op = "push_context" /\ context_call'.op = "pop_context")
            => /\ local_data'.context = Tail(local_data.context)
               /\ ~context_call'.returned]_vars

\* Two contexts were pushed and popped, and one more pop_context has
\* returned true with the first context of the process still in place.
C39_Witness ==
    /\ context_call.op = "pop_context"
    /\ context_call.returned
    /\ context_call.pushes = 2
    /\ context_call.pops = 2
    /\ local_data.context = <<ExecutionContext(0)>>


(***************************************************************************)
(* Properties of the index functions, checked under SpecIndex.             *)
(***************************************************************************)

\* C40: for a pointer to the object slot s of a block, s in 4..1023,
\* object_index_of_pointer is s and line_index_of_pointer is s div 4, one of
\* 1..255, and the pointer masked with the block mask is the address of the
\* block; the first slot objects are allocated into has the object index 4
\* and the line index 1.
C40_IndexOfPointer ==
    index_call # NoIndexCall =>
        /\ \E slot \in 4..1023 :
            /\ index_call.pointer = lines + slot * 32
            /\ index_call.object_index = slot
            /\ index_call.line_index = slot \div 4
        /\ index_call.line_index \in 1..255
        /\ index_call.block = lines
        /\ lines % (32 * 1024) = 0
        /\ index_call.pointer = Address(free_pointer)
           => /\ index_call.object_index = 4
              /\ index_call.line_index = 1

\* The indexes of the pointer to the last slot of the block were computed.
C40_Witness ==
    /\ index_call.pointer = lines + 1023 * 32
    /\ index_call.object_index = 1023
    /\ index_call.line_index = 255

=============================================================================
